---- MODULE Spec2Model ----
(***************************************************************************)
(* NPS visitor analytics: the query layer of backend/main.py over the      *)
(* Region / Park / MonthlyVisit store of backend/models.py.                *)
(*                                                                         *)
(* Strings that the code transforms (park codes, region ids, park names,   *)
(* name queries) are sequences of one-character strings, so that upper(),  *)
(* lower() and substring search are computed and not assumed.              *)
(* Optional[T] is a sequence of length at most one: <<>> is None, <<x>>    *)
(* is the value x.  Python floats are modelled as exact rationals.         *)
(***************************************************************************)
EXTENDS Integers, Sequences, FiniteSets, TLC

VARIABLES
    region,         \* region table: region_id -> region_name
    park,           \* park table: park_code -> [park_name, region_id]
    monthly_visit,  \* monthly_visit table: <<park_code, year, month>> -> row
    pc,             \* position of the request being served
    session,        \* number of store sessions currently open
    request,        \* the operation invoked and its parameters
    response,       \* status, detail and body of the reply
    queries,        \* statements executed on the store by the current request
    scan,           \* row keys in the order the engine visits them on this store
    previous        \* an earlier request and its reply, kept for comparison

vars == <<region, park, monthly_visit, pc, session, request, response, queries, scan,
          previous>>
store == <<region, park, monthly_visit, scan>>

(***************************************************************************)
(* Bounds of the model.                                                    *)
(***************************************************************************)
MaxVisits == 3          \* total_visits of a generated row is in 0..MaxVisits
MaxLimit == 2           \* limit of a top-N request is in -1..MaxLimit, or the default

None == <<>>
Some(x) == <<x>>
IsNone(o) == o = <<>>
Val(o) == o[1]

(***************************************************************************)
(* Characters and the string functions the handlers use.                   *)
(***************************************************************************)
LowerChars == <<"a", "c", "g", "i", "k", "m", "r", "z">>
UpperChars == <<"A", "C", "G", "I", "K", "M", "R", "Z">>

CharUpper(ch) ==
    IF \E i \in DOMAIN LowerChars : LowerChars[i] = ch
    THEN UpperChars[CHOOSE i \in DOMAIN LowerChars : LowerChars[i] = ch]
    ELSE ch

CharLower(ch) ==
    IF \E i \in DOMAIN UpperChars : UpperChars[i] = ch
    THEN LowerChars[CHOOSE i \in DOMAIN UpperChars : UpperChars[i] = ch]
    ELSE ch

\* variant: the text is matched as it was given
Upper_AsGiven(s) == s

\* str.upper()
Upper(s) == [i \in 1..Len(s) |-> CharUpper(s[i])]
\* str.lower()
Lower(s) == [i \in 1..Len(s) |-> CharLower(s[i])]

\* Python's `needle in hay`
Contains(hay, needle) ==
    \E i \in 0..(Len(hay) - Len(needle)) :
        SubSeq(hay, i + 1, i + Len(needle)) = needle

(***************************************************************************)
(* Python's round(): the integer nearest to num/den (den > 0), a tie going *)
(* to the even neighbour.                                                  *)
(***************************************************************************)
FloorDiv(num, den) ==
    IF num >= 0 THEN num \div den ELSE -((-num + den - 1) \div den)

Round(num, den) ==
    LET q == FloorDiv(num, den)
        r == num - q * den
    IN  IF 2 * r < den THEN q
        ELSE IF 2 * r > den THEN q + 1
        ELSE IF q % 2 = 0 THEN q ELSE q + 1

\* int(round(sqrt(num / den2))) for num >= 0 and den2 = den * den
RECURSIVE RoundSqrtFrom(_, _, _)
RoundSqrtFrom(r, num, den) ==
    \* r is the answer when sqrt(num)/den lies in [r - 1/2, r + 1/2]
    IF 4 * num < (2 * r + 1) * (2 * r + 1) * den * den THEN r
    ELSE IF 4 * num = (2 * r + 1) * (2 * r + 1) * den * den
         THEN (IF r % 2 = 0 THEN r ELSE r + 1)
         ELSE RoundSqrtFrom(r + 1, num, den)

RoundSqrt(num, den) == RoundSqrtFrom(0, num, den)

Max(a, b) == IF a >= b THEN a ELSE b

(***************************************************************************)
(* Sequences and sets.                                                     *)
(***************************************************************************)

\* the enumerations of a finite set: the row orders a statement without
\* ORDER BY may deliver
RECURSIVE Orderings(_)
Orderings(S) ==
    IF S = {} THEN {<<>>}
    ELSE UNION {{<<x>> \o t : t \in Orderings(S \ {x})} : x \in S}

\* s[:n] of Python
Slice(s, n) ==
    IF n >= 0 THEN SubSeq(s, 1, IF n < Len(s) THEN n ELSE Len(s))
    ELSE SubSeq(s, 1, Max(Len(s) + n, 0))

\* SQL LIMIT n (SQLite: a negative limit is no limit)
SqlLimit(s, n) == IF n < 0 THEN s ELSE SubSeq(s, 1, IF n < Len(s) THEN n ELSE Len(s))

IsDescBy(s, f) == \A i \in 1..(Len(s) - 1) : s[i][f] >= s[i + 1][f]

\* list.sort(key=lambda x: x.f, reverse=True): stable, equal keys keep
\* their order
RECURSIVE InsertDesc(_, _, _)
InsertDesc(s, x, f) ==
    IF s = <<>> THEN <<x>>
    ELSE IF Head(s)[f] >= x[f] THEN <<Head(s)>> \o InsertDesc(Tail(s), x, f)
    ELSE <<x>> \o s

\* variant: the list is returned in the order the rows were delivered
SortDesc_AsDelivered(s, f) == s

RECURSIVE SortDesc(_, _)
SortDesc(s, f) ==
    IF s = <<>> THEN <<>>
    ELSE InsertDesc(SortDesc(SubSeq(s, 1, Len(s) - 1), f), s[Len(s)], f)

(***************************************************************************)
(* The store.                                                              *)
(***************************************************************************)
AKR == <<"A", "K", "R">>
IMR == <<"I", "M", "R">>
MWR == <<"M", "W", "R">>
NCR == <<"N", "C", "R">>
NER == <<"N", "E", "R">>
PWR == <<"P", "W", "R">>
SER == <<"S", "E", "R">>

\* region_name -> region_id, as the loaders write the region table
REGION_ID_MAP ==
    [n \in {"Alaska", "Intermountain", "Midwest", "National Capital",
            "Northeast", "Pacific West", "Southeast"} |->
        CASE n = "Alaska" -> AKR
          [] n = "Intermountain" -> IMR
          [] n = "Midwest" -> MWR
          [] n = "National Capital" -> NCR
          [] n = "Northeast" -> NER
          [] n = "Pacific West" -> PWR
          [] n = "Southeast" -> SER]

\* the region table after a load: one row per entry of REGION_ID_MAP
RegionTable ==
    [rid \in {REGION_ID_MAP[n] : n \in DOMAIN REGION_ID_MAP} |->
        CHOOSE n \in DOMAIN REGION_ID_MAP : REGION_ID_MAP[n] = rid]

ACAD == <<"A", "C">>
GRCA == <<"G", "R">>
ZION == <<"Z", "I">>
ParkCodes == {ACAD, GRCA, ZION}

Years == {2022, 2023}
Months == {1, 5, 6, 7, 12}
SummerMonths == {5, 6, 7}

\* a monthly_visit row as load_csv writes it: total_visits is
\* recreation_visits + non_recreation_visits, every counter an integer
MonthlyVisitRow(rec, nonrec, aux) ==
    [recreation_visits |-> rec,
     non_recreation_visits |-> nonrec,
     total_visits |-> rec + nonrec,
     concessioner_lodging |-> aux,
     concessioner_camping |-> 0,
     tent_campers |-> aux,
     rv_campers |-> 0,
     backcountry |-> 0,
     nonrecreation_overnight_stays |-> 0,
     miscellaneous_overnight_stays |-> aux]

\* rows of park c in year y (their keys)
VisitKeys(c, y) == {k \in DOMAIN monthly_visit : k[1] = c /\ k[2] = y}

\* SUM(col) over a group of rows
RECURSIVE SumOver(_, _)
SumOver(K, col) ==
    IF K = {} THEN 0
    ELSE LET k == CHOOSE x \in K : TRUE
         IN  monthly_visit[k][col] + SumOver(K \ {k}, col)

\* SUM(total_visits) of park c in year y
AnnualTotal(c, y) == SumOver(VisitKeys(c, y), "total_visits")

\* Park JOIN MonthlyVisit WHERE year = y GROUP BY park: the parks of the
\* park table with at least one row in year y
ParksWithVisits(y) == {c \in DOMAIN park : VisitKeys(c, y) # {}}

\* Region.region_id of the row that Park LEFT JOIN Region yields for park c
JoinedRegionId(c) ==
    IF ~IsNone(park[c].region_id) /\ Val(park[c].region_id) \in DOMAIN region
    THEN park[c].region_id ELSE None

JoinedRegionName(c) ==
    IF IsNone(JoinedRegionId(c)) THEN None
    ELSE Some(region[Val(JoinedRegionId(c))])

(***************************************************************************)
(* Replies.                                                                *)
(***************************************************************************)
NoRequest == [op |-> "none"]
NoResponse == [status |-> 0, detail |-> "", body |-> <<>>]

\* a handler that returns `body` after executing n statements
Ok(body, n) == [status |-> 200, detail |-> "", body |-> body, queries |-> n]
\* raise HTTPException(status_code, detail) after executing n statements
HTTPException(status_code, detail, n) ==
    [status |-> status_code, detail |-> detail, body |-> <<>>, queries |-> n]

\* the months of a set of row keys, ascending (ORDER BY month)
RECURSIVE MonthsAscending(_)
MonthsAscending(K) ==
    IF K = {} THEN <<>>
    ELSE LET k == CHOOSE x \in K : \A o \in K : x[3] <= o[3]
         IN  <<k[3]>> \o MonthsAscending(K \ {k})

(***************************************************************************)
(* Helper endpoints: years with data, regions, details of a park.          *)
(***************************************************************************)
get_available_years ==
    IF DOMAIN monthly_visit = {}
    THEN HTTPException(404, "No year data available", 1)
    ELSE LET years == {k[2] : k \in DOMAIN monthly_visit}
         IN  Ok(<<[min_year |-> CHOOSE y \in years : \A o \in years : y <= o,
                   max_year |-> CHOOSE y \in years : \A o \in years : y >= o]>>, 1)

\* text comparison of the store: a before b
Letters == <<"A", "C", "E", "G", "I", "K", "M", "N", "P", "R", "S", "W", "Z">>
LetterIndex(ch) == CHOOSE i \in 1..Len(Letters) : Letters[i] = ch
RECURSIVE TextLess(_, _)
TextLess(a, b) ==
    IF b = <<>> THEN FALSE
    ELSE IF a = <<>> THEN TRUE
    ELSE IF Head(a) = Head(b) THEN TextLess(Tail(a), Tail(b))
    ELSE LetterIndex(Head(a)) < LetterIndex(Head(b))

\* the texts of S in ascending order (ORDER BY on a text column)
RECURSIVE TextsAscending(_)
TextsAscending(S) ==
    IF S = {} THEN <<>>
    ELSE LET m == CHOOSE x \in S : \A o \in S \ {x} : TextLess(x, o)
         IN  <<m>> \o TextsAscending(S \ {m})

\* select(Region).order_by(Region.region_id)
list_regions ==
    LET s == TextsAscending(DOMAIN region)
    IN  Ok([i \in 1..Len(s) |-> [region_id |-> s[i], region_name |-> region[s[i]]]], 1)

get_park_details(park_code) ==
    LET code == Upper(park_code)
    IN  IF code \notin DOMAIN park
        THEN HTTPException(404, <<"Park ", code, " not found">>, 1)
        ELSE Ok(<<[park_code |-> code,
                   park_name |-> park[code].park_name,
                   region_id |-> JoinedRegionId(code),
                   region_name |-> JoinedRegionName(code),
                   boundary |-> park[code].boundary]>>, 1)

(***************************************************************************)
(* Q1: monthly visits of a park and year, with the threshold flag.         *)
(***************************************************************************)
\* variant: a month at the threshold is not flagged
AboveThreshold_Strict(total_int, threshold) == total_int > threshold

\* above_threshold=total_int >= threshold
AboveThreshold(total_int, threshold) == total_int >= threshold

park_monthly_visits_with_threshold(park_code, year, threshold) ==
    LET code == Upper(park_code)
        rows == MonthsAscending(VisitKeys(code, year))
    IN  IF rows = <<>>
        THEN HTTPException(404, "No visits for that park/year", 1)
        ELSE Ok([i \in 1..Len(rows) |->
                    LET total_int == monthly_visit[<<code, year, rows[i]>>].total_visits
                    IN  [month |-> rows[i],
                         total_visits |-> total_int,
                         above_threshold |-> AboveThreshold(total_int, threshold)]], 1)

(***************************************************************************)
(* Q8: month-to-month change of a park within a year.                      *)
(***************************************************************************)
\* m1.total_visits - COALESCE(m2.total_visits, 0), m2 being the row of the
\* same park and year with m2.month + 1 = m1.month (LEFT OUTER JOIN)
\* variant: January is compared with December of the year before
ChangeFromPrevious_AcrossYears(code, year, month) ==
    LET m1 == monthly_visit[<<code, year, month>>]
        prev == IF month = 1 THEN <<code, year - 1, 12>> ELSE <<code, year, month - 1>>
    IN  m1.total_visits -
            (IF prev \in DOMAIN monthly_visit
             THEN monthly_visit[prev].total_visits ELSE 0)

ChangeFromPrevious(code, year, month) ==
    LET m1 == monthly_visit[<<code, year, month>>]
        prev == <<code, year, month - 1>>
    IN  m1.total_visits -
            (IF prev \in DOMAIN monthly_visit
             THEN monthly_visit[prev].total_visits ELSE 0)

month_to_month_change(park_code, year) ==
    LET code == Upper(park_code)
        rows == MonthsAscending(VisitKeys(code, year))
    IN  IF rows = <<>>
        THEN HTTPException(404, "No visits for that park/year", 1)
        ELSE Ok([i \in 1..Len(rows) |->
                    [month |-> rows[i],
                     total_visits |-> monthly_visit[<<code, year, rows[i]>>].total_visits,
                     \* total_visits is never NULL in a loaded row, so the
                     \* difference is never NULL
                     change_from_previous |->
                         Some(ChangeFromPrevious(code, year, rows[i]))]], 1)

(***************************************************************************)
(* Filters shared by the aggregate handlers.                               *)
(***************************************************************************)
\* SQL LIKE, case-insensitive: % is any run of characters, _ any one
RECURSIVE LikeMatch(_, _)
LikeMatch(str, pat) ==
    IF pat = <<>> THEN str = <<>>
    ELSE IF Head(pat) = "%"
         THEN LikeMatch(str, Tail(pat))
              \/ (str # <<>> /\ LikeMatch(Tail(str), pat))
         ELSE /\ str # <<>>
              /\ (Head(pat) = "_" \/ CharLower(Head(str)) = CharLower(Head(pat)))
              /\ LikeMatch(Tail(str), Tail(pat))

\* Park.park_name.ilike(f"%{query}%")
NameILike(c, query) == LikeMatch(park[c].park_name, <<"%">> \o query \o <<"%">>)

\* .where(Region.region_id == region_id) on Park LEFT JOIN Region,
\* region_id already upper-cased; skipped when region_id is None
RegionFilter(c, region_id) ==
    IsNone(region_id) \/ JoinedRegionId(c) = Some(Upper(Val(region_id)))

\* .where(Park.region_id == region_id), no join with the region table
ParkRegionFilter(c, region_id) ==
    IsNone(region_id) \/ park[c].region_id = Some(Upper(Val(region_id)))

\* variant: the name search is applied next to the exact code
ParkFilter_Both(c, park_code, query) ==
    /\ IsNone(park_code) \/ c = Upper(Val(park_code))
    /\ IsNone(query) \/ NameILike(c, Val(query))

\* if park_code is not None: exact code  elif query is not None: ilike
ParkFilter(c, park_code, query) ==
    IF ~IsNone(park_code) THEN c = Upper(Val(park_code))
    ELSE IF ~IsNone(query) THEN NameILike(c, Val(query))
    ELSE TRUE

\* the engine visits the row (group) with key a before the one with key b
ScanBefore(a, b) ==
    (CHOOSE i \in 1..Len(scan) : scan[i] = a) < (CHOOSE i \in 1..Len(scan) : scan[i] = b)

\* the rows of a statement without ORDER BY over the groups S (park codes):
\* the order of the engine's scan, the same for every run on this store
TableScan(S) ==
    {s \in Orderings(S) : \A i \in 1..(Len(s) - 1) : ScanBefore(s[i], s[i + 1])}

\* variant: rows that tie on f come in a different order on every run
OrderByDesc_AnyTieOrder(S, f, k) == {s \in Orderings(S) : IsDescBy(s, f)}

\* the rows of ORDER BY f DESC: rows that tie on f come in the order of the
\* engine's scan of their keys k
OrderByDesc(S, f, k) ==
    {s \in Orderings(S) :
        /\ IsDescBy(s, f)
        /\ \A i \in 1..(Len(s) - 1) :
               s[i][f] = s[i + 1][f] => ScanBefore(s[i][k], s[i + 1][k])}

(***************************************************************************)
(* Q2: annual total visits per park.                                       *)
(***************************************************************************)
AnnualParkVisitsOut(c, year) ==
    [park_code |-> c,
     park_name |-> park[c].park_name,
     region_id |-> JoinedRegionId(c),
     region_name |-> JoinedRegionName(c),
     year |-> year,
     annual_total_visits |-> AnnualTotal(c, year)]

\* variant: a park whose total equals min_total is dropped
annual_visits_by_park_MinTotalStrict(year, region_id, park_code, query, min_total, limit) ==
    LET groups == {c \in ParksWithVisits(year) :
                      /\ RegionFilter(c, region_id)
                      /\ ParkFilter(c, park_code, query)
                      /\ (IsNone(min_total) \/ AnnualTotal(c, year) > Val(min_total))}
        rows == {AnnualParkVisitsOut(c, year) : c \in groups}
    IN  {Ok(SqlLimit(s, limit), 1) :
            s \in OrderByDesc(rows, "annual_total_visits", "park_code")}

annual_visits_by_park(year, region_id, park_code, query, min_total, limit) ==
    LET groups == {c \in ParksWithVisits(year) :
                      /\ RegionFilter(c, region_id)
                      /\ ParkFilter(c, park_code, query)
                      /\ (IsNone(min_total) \/ AnnualTotal(c, year) >= Val(min_total))}
        rows == {AnnualParkVisitsOut(c, year) : c \in groups}
    IN  {Ok(SqlLimit(s, limit), 1) : s \in OrderByDesc(rows, "annual_total_visits", "park_code")}

(***************************************************************************)
(* Q3: average monthly visits per park over a year range.                  *)
(***************************************************************************)
RangeKeys(c, start_year, end_year) ==
    {k \in DOMAIN monthly_visit : k[1] = c /\ start_year <= k[2] /\ k[2] <= end_year}

\* one group of the AVG query: the average is sum_v / n
AvgGroup(c, K) ==
    [park_code |-> c, sum_v |-> SumOver(K, "total_visits"), n |-> Cardinality(K)]

\* ORDER BY AVG(total_visits) DESC; equal averages in the order of the scan
IsDescByAvg(s) ==
    \A i \in 1..(Len(s) - 1) :
        /\ s[i].sum_v * s[i + 1].n >= s[i + 1].sum_v * s[i].n
        /\ s[i].sum_v * s[i + 1].n = s[i + 1].sum_v * s[i].n
               => ScanBefore(s[i].park_code, s[i + 1].park_code)

AvgMonthlyVisitsOut(g, start_year, end_year) ==
    [park_code |-> g.park_code,
     park_name |-> park[g.park_code].park_name,
     region_id |-> JoinedRegionId(g.park_code),
     region_name |-> JoinedRegionName(g.park_code),
     start_year |-> start_year,
     end_year |-> end_year,
     avg_monthly_visits |-> Round(g.sum_v, g.n)]

\* variant: the range test is off by one year
InvertedRange_OffByOne(start_year, end_year) == start_year > end_year + 1

\* if start_year > end_year: raise
InvertedRange(start_year, end_year) == start_year > end_year

average_monthly_visits_by_park(start_year, end_year, region_id, park_code, query, limit) ==
    IF InvertedRange(start_year, end_year)
    THEN {HTTPException(400, "start_year must be <= end_year", 0)}
    ELSE LET groups == {AvgGroup(c, RangeKeys(c, start_year, end_year)) :
                           c \in {c \in DOMAIN park :
                                     /\ RangeKeys(c, start_year, end_year) # {}
                                     /\ RegionFilter(c, region_id)
                                     /\ ParkFilter(c, park_code, query)}}
         IN  {Ok([i \in 1..Len(SqlLimit(s, limit)) |->
                     AvgMonthlyVisitsOut(s[i], start_year, end_year)], 1) :
                 s \in {o \in Orderings(groups) : IsDescByAvg(o)}}

(***************************************************************************)
(* Q4: peak-season (June-August) average at or above a threshold.          *)
(***************************************************************************)
PeakKeys(c, year) == {k \in VisitKeys(c, year) : k[3] \in {6, 7, 8}}

peak_season_above_threshold(year, threshold, region_id) ==
    LET groups == {g \in {AvgGroup(c, PeakKeys(c, year)) :
                             c \in {c \in DOMAIN park :
                                       /\ PeakKeys(c, year) # {}
                                       /\ RegionFilter(c, region_id)}} :
                      \* HAVING AVG(total_visits) >= threshold
                      g.sum_v >= threshold * g.n}
    IN  {Ok([i \in 1..Len(s) |-> AvgMonthlyVisitsOut(s[i], year, year)], 1) :
            s \in {o \in Orderings(groups) : IsDescByAvg(o)}}

(***************************************************************************)
(* Q5: parks above the system (or region) average.                         *)
(***************************************************************************)
\* pass 1: the parks whose annual totals are averaged
AverageScope(year, region_id) ==
    {c \in ParksWithVisits(year) : ParkRegionFilter(c, region_id)}

\* overall_avg = int(round(sum(annual_totals) / len(annual_totals)))
OverallAvg(year, scope) ==
    Round(SumOver(UNION {VisitKeys(c, year) : c \in scope}, "total_visits"),
          Cardinality(scope))

\* HAVING SUM(total_visits) > overall_avg
AboveAverage(annual_total, overall_avg) == annual_total > overall_avg

\* variant: the percentage is taken of the park's total, without the guard
ParkAboveAverageOut_PercentOfTotal(c, year, overall_avg) ==
    LET annual_total_int == AnnualTotal(c, year)
    IN  [park_code |-> c,
         park_name |-> park[c].park_name,
         region_id |-> JoinedRegionId(c),
         region_name |-> JoinedRegionName(c),
         year |-> year,
         annual_total_visits |-> annual_total_int,
         system_average_visits |-> overall_avg,
         difference_from_average |-> annual_total_int - overall_avg,
         percent_above_average |->
             Round((annual_total_int - overall_avg) * 100, annual_total_int)]

ParkAboveAverageOut(c, year, overall_avg) ==
    LET annual_total_int == AnnualTotal(c, year)
    IN  [park_code |-> c,
         park_name |-> park[c].park_name,
         region_id |-> JoinedRegionId(c),
         region_name |-> JoinedRegionName(c),
         year |-> year,
         annual_total_visits |-> annual_total_int,
         system_average_visits |-> overall_avg,
         difference_from_average |-> annual_total_int - overall_avg,
         percent_above_average |->
             IF overall_avg > 0
             THEN Round((annual_total_int - overall_avg) * 100, overall_avg)
             ELSE 0]

\* variant: the average is taken over the parks that pass the park filter
parks_above_system_average_AverageOfFiltered(year, region_id, park_code, query) ==
    LET scope == {c \in AverageScope(year, region_id) : ParkFilter(c, park_code, query)}
    IN  IF scope = {}
        THEN {HTTPException(404, "No data for that year/filters", 1)}
        ELSE LET overall_avg == OverallAvg(year, scope)
                 groups == {c \in ParksWithVisits(year) :
                               /\ AboveAverage(AnnualTotal(c, year), overall_avg)
                               /\ RegionFilter(c, region_id)
                               /\ ParkFilter(c, park_code, query)}
                 rows == {ParkAboveAverageOut(c, year, overall_avg) : c \in groups}
             IN  {Ok(s, 2) : s \in OrderByDesc(rows, "annual_total_visits", "park_code")}

parks_above_system_average(year, region_id, park_code, query) ==
    LET scope == AverageScope(year, region_id)
    IN  IF scope = {}
        THEN {HTTPException(404, "No data for that year/filters", 1)}
        ELSE LET overall_avg == OverallAvg(year, scope)
                 groups == {c \in ParksWithVisits(year) :
                               /\ AboveAverage(AnnualTotal(c, year), overall_avg)
                               /\ RegionFilter(c, region_id)
                               /\ ParkFilter(c, park_code, query)}
                 rows == {ParkAboveAverageOut(c, year, overall_avg) : c \in groups}
             IN  {Ok(s, 2) : s \in OrderByDesc(rows, "annual_total_visits", "park_code")}

(***************************************************************************)
(* Q6: top N parks of a year.                                              *)
(***************************************************************************)
\* the rows of rank_stmt: every park of the scope with its annual total
RankScope(year, region_id) ==
    {[park_code |-> c,
      park_name |-> park[c].park_name,
      year |-> year,
      annual_total_visits |-> AnnualTotal(c, year)] :
        c \in {c \in ParksWithVisits(year) : ParkRegionFilter(c, region_id)}}

\* variant: the rank is the 0-based index of the row
RankIn_ZeroBased(all_ranked, park_code) ==
    IF \E i \in 1..Len(all_ranked) : all_ranked[i].park_code = park_code
    THEN (CHOOSE i \in 1..Len(all_ranked) :
             /\ all_ranked[i].park_code = park_code
             /\ \A j \in 1..(i - 1) : all_ranked[j].park_code # park_code) - 1
    ELSE 0

\* rank = 1 + index of the first row of all_ranked with that park code, or 0
RankIn(all_ranked, park_code) ==
    IF \E i \in 1..Len(all_ranked) : all_ranked[i].park_code = park_code
    THEN CHOOSE i \in 1..Len(all_ranked) :
            /\ all_ranked[i].park_code = park_code
            /\ \A j \in 1..(i - 1) : all_ranked[j].park_code # park_code
    ELSE 0

\* [row for row in all_ranked if query.lower() in row[1].lower()]
RECURSIVE FilterByName(_, _)
FilterByName(rows, query) ==
    IF rows = <<>> THEN <<>>
    ELSE (IF Contains(Lower(Head(rows).park_name), Lower(query))
          THEN <<Head(rows)>> ELSE <<>>) \o FilterByName(Tail(rows), query)

TopParkOut(all_ranked, row) ==
    [rank |-> RankIn(all_ranked, row.park_code),
     park_code |-> row.park_code,
     park_name |-> row.park_name,
     year |-> row.year,
     annual_total_visits |-> row.annual_total_visits]

\* variant: the rank is the position in the filtered list
TopParks_RankAfterFilter(all_ranked, limit, query) ==
    LET filtered_rows == Slice(IF IsNone(query) THEN all_ranked
                               ELSE FilterByName(all_ranked, Val(query)), limit)
    IN  [i \in 1..Len(filtered_rows) |-> TopParkOut(filtered_rows, filtered_rows[i])]

\* the list returned for one delivery order all_ranked of rank_stmt
TopParks(all_ranked, limit, query) ==
    LET filtered_rows == Slice(IF IsNone(query) THEN all_ranked
                               ELSE FilterByName(all_ranked, Val(query)), limit)
    IN  [i \in 1..Len(filtered_rows) |-> TopParkOut(all_ranked, filtered_rows[i])]

top_parks_by_year(year, limit, region_id, query) ==
    {Ok(TopParks(all_ranked, limit, query), 1) :
        all_ranked \in OrderByDesc(RankScope(year, region_id), "annual_total_visits", "park_code")}

(***************************************************************************)
(* Q11: sum of one whitelisted counter per park.                           *)
(***************************************************************************)
\* variant: one column is missing from the whitelist
AllowedMetrics_WithoutBackcountry ==
    {"concessioner_lodging", "concessioner_camping", "tent_campers",
     "rv_campers", "nonrecreation_overnight_stays",
     "miscellaneous_overnight_stays"}

\* the keys of `allowed`
AllowedMetrics ==
    {"concessioner_lodging", "concessioner_camping", "tent_campers",
     "rv_campers", "backcountry", "nonrecreation_overnight_stays",
     "miscellaneous_overnight_stays"}

MetricParkOut(c, year, metric) ==
    [park_code |-> c,
     park_name |-> park[c].park_name,
     region_id |-> JoinedRegionId(c),
     region_name |-> JoinedRegionName(c),
     year |-> year,
     metric_total |-> SumOver(VisitKeys(c, year), metric)]

parks_by_metric(year, metric, region_id, limit) ==
    IF metric \notin AllowedMetrics
    THEN {HTTPException(400, "Unsupported metric: " \o metric, 0)}
    ELSE LET rows == {MetricParkOut(c, year, metric) :
                         c \in {c \in ParksWithVisits(year) : RegionFilter(c, region_id)}}
         IN  {Ok(SqlLimit(s, limit), 1) : s \in OrderByDesc(rows, "metric_total", "park_code")}

(***************************************************************************)
(* Q7: annual total visits per region, ranked.                             *)
(***************************************************************************)
\* Region JOIN Park JOIN MonthlyVisit WHERE year = y GROUP BY region
RegionKeys(rid, year) ==
    UNION {VisitKeys(c, year) : c \in {c \in DOMAIN park : park[c].region_id = Some(rid)}}

\* variant: the rank is the region's position among all regions
annual_visits_by_region_RankOverAll(year, region_id) ==
    LET groups == {rid \in DOMAIN region : RegionKeys(rid, year) # {}}
        rows == {[region_id |-> rid,
                  region_name |-> region[rid],
                  year |-> year,
                  annual_total_visits |-> SumOver(RegionKeys(rid, year), "total_visits")] :
                    rid \in groups}
        Ranked(s) == [i \in 1..Len(s) |->
                         [region_id |-> s[i].region_id,
                          region_name |-> s[i].region_name,
                          year |-> s[i].year,
                          annual_total_visits |-> s[i].annual_total_visits,
                          rank |-> i]]
        Keep(s, i) == IsNone(region_id) \/ s[i].region_id = Upper(Val(region_id))
        RECURSIVE Filter(_, _)
        Filter(s, i) == IF i > Len(s) THEN <<>>
                        ELSE (IF Keep(s, i) THEN <<s[i]>> ELSE <<>>) \o Filter(s, i + 1)
    IN  {Ok(Filter(Ranked(s), 1), 1) :
            s \in OrderByDesc(rows, "annual_total_visits", "region_id")}

annual_visits_by_region(year, region_id) ==
    LET groups == {rid \in DOMAIN region :
                      /\ RegionKeys(rid, year) # {}
                      /\ (IsNone(region_id) \/ rid = Upper(Val(region_id)))}
        rows == {[region_id |-> rid,
                  region_name |-> region[rid],
                  year |-> year,
                  annual_total_visits |-> SumOver(RegionKeys(rid, year), "total_visits")] :
                    rid \in groups}
    IN  {Ok([i \in 1..Len(s) |->
                [region_id |-> s[i].region_id,
                 region_name |-> s[i].region_name,
                 year |-> s[i].year,
                 annual_total_visits |-> s[i].annual_total_visits,
                 rank |-> i]], 1) :
            s \in OrderByDesc(rows, "annual_total_visits", "region_id")}

(***************************************************************************)
(* Q9: growth of annual visits per park of a region between two years.     *)
(***************************************************************************)
\* variant: int() without round(), which truncates toward zero
GrowthPercent_Truncated(st, et) ==
    IF st = 0 THEN 0
    ELSE IF et >= st THEN ((et - st) * 100) \div st
    ELSE -(((st - et) * 100) \div st)

\* growth_pct of one joined row
GrowthPercent(st, et) ==
    IF st = 0 THEN 0 ELSE Round((et - st) * 100, st)

\* variant: the end-year totals are joined with an outer join
GrowthParks_StartYearOnly(rid, start_year, end_year) ==
    {c \in DOMAIN park :
        /\ park[c].region_id = Some(rid)
        /\ rid \in DOMAIN region
        /\ VisitKeys(c, start_year) # {}}

\* Park JOIN Region JOIN start_alias JOIN end_alias WHERE region: the parks
\* of the region with a start_year total and an end_year total
GrowthParks(rid, start_year, end_year) ==
    {c \in DOMAIN park :
        /\ park[c].region_id = Some(rid)
        /\ rid \in DOMAIN region
        /\ VisitKeys(c, start_year) # {}
        /\ VisitKeys(c, end_year) # {}}

GrowthOut(c, rid, start_year, end_year) ==
    LET st == AnnualTotal(c, start_year)
        et == AnnualTotal(c, end_year)
    IN  [park_code |-> c,
         park_name |-> park[c].park_name,
         region_id |-> rid,
         region_name |-> region[rid],
         start_year |-> start_year,
         end_year |-> end_year,
         start_total |-> st,
         end_total |-> et,
         growth_percent |-> GrowthPercent(st, et)]

\* variant: two equal years are accepted
BadYearWindow_EqualAccepted(start_year, end_year) == start_year > end_year

\* start_year >= end_year is rejected
BadYearWindow(start_year, end_year) == start_year >= end_year

growth_by_region_over_time(region_id, start_year, end_year) ==
    IF BadYearWindow(start_year, end_year)
    THEN {HTTPException(400, "start_year must be < end_year", 0)}
    ELSE LET rid == Upper(region_id)
             parks == GrowthParks(rid, start_year, end_year)
         IN  IF parks = {}
             THEN {HTTPException(404, "No data for that region/years", 1)}
             ELSE {Ok(SortDesc([i \in 1..Len(rows) |->
                                   GrowthOut(rows[i], rid, start_year, end_year)],
                               "growth_percent"), 1) :
                      rows \in TableScan(parks)}

(***************************************************************************)
(* Q10: variability (standard deviation) of monthly visits per park.       *)
(***************************************************************************)
\* SUM(total_visits * total_visits) over a group of rows
RECURSIVE SumSquares(_)
SumSquares(K) ==
    IF K = {} THEN 0
    ELSE LET k == CHOOSE x \in K : TRUE
         IN  monthly_visit[k].total_visits * monthly_visit[k].total_visits
                 + SumSquares(K \ {k})

\* variant: the sample standard deviation (divisor n - 1)
StdDev_Sample(n, sum_v, sum_v2) ==
    IF n = 1 THEN 0
    ELSE RoundSqrt(Max(n * sum_v2 - sum_v * sum_v, 0) * n * (n - 1), n * (n - 1))

\* variant: the squared mean is not subtracted
StdDev_RootMeanSquare(n, sum_v, sum_v2) == RoundSqrt(n * sum_v2, n)

\* int(round(sqrt(max(sum_v2 / n - mean * mean, 0)))), mean = sum_v / n:
\* the variance is (n * sum_v2 - sum_v^2) / n^2
StdDev(n, sum_v, sum_v2) == RoundSqrt(Max(n * sum_v2 - sum_v * sum_v, 0), n)

VariabilityOut(c, year) ==
    LET K == VisitKeys(c, year)
        n == Cardinality(K)
        sum_v == SumOver(K, "total_visits")
        sum_v2 == SumSquares(K)
    IN  [park_code |-> c,
         park_name |-> park[c].park_name,
         region_id |-> JoinedRegionId(c),
         region_name |-> JoinedRegionName(c),
         year |-> year,
         avg_monthly_visits |-> Round(sum_v, n),
         std_dev_monthly_visits |-> StdDev(n, sum_v, sum_v2),
         months_with_data |-> n]

\* variant: no NotFound when nothing matches
park_visit_variability_NoNotFound(year, region_id, park_code, query, limit) ==
    LET groups == {c \in ParksWithVisits(year) :
                      /\ RegionFilter(c, region_id)
                      /\ ParkFilter(c, park_code, query)}
    IN  {Ok(LET results == SortDesc([i \in 1..Len(rows) |->
                                        VariabilityOut(rows[i], year)],
                                    "std_dev_monthly_visits")
            IN  IF limit > 0 THEN Slice(results, limit) ELSE results, 1) :
            rows \in TableScan(groups)}

\* variant: the limit is pushed into the statement, before the sort
park_visit_variability_LimitBeforeSort(year, region_id, park_code, query, limit) ==
    LET groups == {c \in ParksWithVisits(year) :
                      /\ RegionFilter(c, region_id)
                      /\ ParkFilter(c, park_code, query)}
    IN  IF groups = {}
        THEN {HTTPException(404, "No data for that year/filters", 1)}
        ELSE {Ok(LET cut == IF limit > 0 THEN Slice(rows, limit) ELSE rows
                 IN  SortDesc([i \in 1..Len(cut) |-> VariabilityOut(cut[i], year)],
                              "std_dev_monthly_visits"), 1) :
                 rows \in TableScan(groups)}

park_visit_variability(year, region_id, park_code, query, limit) ==
    LET groups == {c \in ParksWithVisits(year) :
                      /\ RegionFilter(c, region_id)
                      /\ ParkFilter(c, park_code, query)}
    IN  IF groups = {}
        THEN {HTTPException(404, "No data for that year/filters", 1)}
        ELSE {Ok(LET results == SortDesc([i \in 1..Len(rows) |->
                                             VariabilityOut(rows[i], year)],
                                         "std_dev_monthly_visits")
                 IN  IF limit > 0 THEN Slice(results, limit) ELSE results, 1) :
                 rows \in TableScan(groups)}

(***************************************************************************)
(* Stores the service can be started on, and the requests it is sent.      *)
(***************************************************************************)
\* the park table after insert_parks_into_db and a region backfill
ParkTable ==
    [c \in ParkCodes |->
        CASE c = ACAD -> [park_name |-> <<"A", "c", "a">>, region_id |-> Some(AKR),
                          boundary |-> Some("GeoJSON")]
          [] c = GRCA -> [park_name |-> <<"G", "r", "a">>, region_id |-> Some(AKR),
                          boundary |-> None]
          [] c = ZION -> [park_name |-> <<"Z", "i">>, region_id |-> Some(IMR),
                          boundary |-> Some("GeoJSON")]]

\* a park whose code is in no CSV row keeps region_id NULL
ParkTableUnassigned ==
    [ParkTable EXCEPT ![ZION].region_id = None]

\* a park of the CSV that the parks API did not return has no park row
ParkTableMissing == [c \in {ACAD, GRCA} |-> ParkTable[c]]

GeneratedRows == {MonthlyVisitRow(v, 0, v) : v \in 0..MaxVisits}

\* monthly_visit tables with rows on the given cells only
TablesOn(cells) == UNION {[K -> GeneratedRows] : K \in SUBSET cells}

FirstYear == CHOOSE y \in Years : \A o \in Years : y <= o

\* one park and year, any months (gaps included)
SeriesTables == TablesOn({ACAD} \X {FirstYear} \X SummerMonths)
\* one month of one year, any parks
AnnualTables == TablesOn(ParkCodes \X {FirstYear} \X {6})
\* one park in any of the years, next to a park with a row in every year
GrowthTables ==
    {[k \in DOMAIN t \cup ({GRCA} \X Years \X {6}) |->
         IF k \in DOMAIN t THEN t[k] ELSE MonthlyVisitRow(1, 0, 1)] :
        t \in TablesOn({ACAD} \X Years \X {6})}

\* the fixtures of the documented examples
ExampleTables ==
    {[k \in {ACAD} \X {FirstYear} \X SummerMonths |->
         MonthlyVisitRow(100 * (k[3] - 4), 0, 0)],
     [k \in ParkCodes \X {FirstYear} \X {6} |->
         MonthlyVisitRow(CASE k[1] = ACAD -> 200 [] k[1] = GRCA -> 100 [] k[1] = ZION -> 300, 0, 0)],
     [k \in {ACAD} \X Years \X {6} |->
         MonthlyVisitRow(IF k[2] = FirstYear THEN 0 ELSE 500, 0, 0)]}

\* every park has one row
FullTables ==
    {[k \in ParkCodes \X {FirstYear} \X {6} |-> MonthlyVisitRow(v[k[1]], 0, 0)] :
        v \in [ParkCodes -> {1, MaxVisits}]}

\* two months of every park, each empty or busy
VariabilityTables ==
    [ParkCodes \X {FirstYear} \X {5, 6} ->
        {MonthlyVisitRow(0, 0, 0), MonthlyVisitRow(MaxVisits, 0, 0)}]

\* a park with rows on both sides of a year boundary: December of the first
\* year, then January, June and July of the next; rows of the earlier year
\* and of another park sit on the months before
YearBoundaryTables ==
    {[k \in {<<ACAD, 2022, 5>>, <<ACAD, 2022, 12>>, <<GRCA, 2023, 5>>,
             <<ACAD, 2023, 1>>, <<ACAD, 2023, 6>>, <<ACAD, 2023, 7>>} |->
         IF k[1] = ACAD /\ k[2] = 2023
         THEN MonthlyVisitRow(v[k[3]], 0, 0) ELSE MonthlyVisitRow(2, 0, 0)] :
        v \in [{1, 6, 7} -> {1, MaxVisits}]}

Stores ==
    ({ParkTable} \X (SeriesTables \cup AnnualTables \cup GrowthTables \cup ExampleTables
                         \cup VariabilityTables \cup YearBoundaryTables))
    \cup ({ParkTableUnassigned, ParkTableMissing} \X FullTables)

\* the engine visits the rows by ascending or by descending key
KeyOrder == <<ACAD, GRCA, ZION, AKR, IMR, MWR, NCR, NER, PWR, SER>>
ScanOrders == {KeyOrder, [i \in 1..Len(KeyOrder) |-> KeyOrder[Len(KeyOrder) + 1 - i]]}

CodeInputs == {ACAD, <<"a", "c">>, GRCA, ZION}
RegionInputs == {None, Some(AKR), Some(<<"a", "k", "r">>), Some(IMR)}
QueryInputs == {None, Some(<<"A">>)}
RegionPathInputs == {AKR, <<"a", "k", "r">>, IMR}
ParkCodeFilters == {None, Some(ACAD), Some(<<"a", "c">>)}
\* park_code and query of one request; in the last pair the name of the
\* park does not contain the query
ParkFilterInputs ==
    (ParkCodeFilters \X QueryInputs) \cup {<<Some(ACAD), Some(<<"Z">>)>>}
LimitInputs == {1, 100}
AnnualLimitInputs == {0, 1, MaxLimit, 100}
TopLimitInputs == (-1..MaxLimit) \cup {10}
ThresholdInputs == 0..MaxVisits
MinTotalInputs == {None, Some(1)}
\* the counters of a monthly_visit row, and a name that is no column
MetricInputs ==
    {"recreation_visits", "total_visits", "concessioner_lodging",
     "concessioner_camping", "tent_campers", "rv_campers", "backcountry",
     "nonrecreation_overnight_stays", "miscellaneous_overnight_stays",
     "not_a_real_column"}

Init ==
    /\ region = RegionTable
    /\ \E st \in Stores : park = st[1] /\ monthly_visit = st[2]
    /\ scan \in ScanOrders
    /\ previous = NoRequest
    /\ pc = "idle"
    /\ session = 0
    /\ request = NoRequest
    /\ response = NoResponse
    /\ queries = 0

\* FastAPI resolves Depends(get_session): `with Session(engine) as session`
GetSession ==
    /\ pc = "idle"
    /\ pc' = "handler"
    /\ session' = session + 1
    /\ UNCHANGED <<store, request, response, queries, previous>>

\* variant: a handler that raises leaves a marker row in monthly_visit
Reply_WritesOnError(req, r) ==
    /\ pc' = "reply"
    /\ request' = req
    /\ response' = [status |-> r.status, detail |-> r.detail, body |-> r.body]
    /\ queries' = r.queries
    /\ monthly_visit' =
           IF r.status = 200 THEN monthly_visit
           ELSE [k \in DOMAIN monthly_visit \cup {<<ACAD, 2022, 5>>} |->
                    MonthlyVisitRow(0, 0, 0)]
    /\ UNCHANGED <<region, park, scan, session, previous>>

\* the handler runs to its return or raise
Reply(req, r) ==
    /\ pc' = "reply"
    /\ request' = req
    /\ response' = [status |-> r.status, detail |-> r.detail, body |-> r.body]
    /\ queries' = r.queries
    /\ UNCHANGED <<store, session, previous>>

\* variant: the session is closed only after a handler that returned
CloseSession_OnReturnOnly ==
    /\ pc = "reply"
    /\ pc' = "idle"
    /\ session' = IF response.status = 200 THEN session - 1 ELSE session
    /\ request' = NoRequest
    /\ response' = NoResponse
    /\ queries' = 0
    /\ UNCHANGED <<store, previous>>

\* the reply is sent and the `with` block of get_session closes the session
CloseSession ==
    /\ pc = "reply"
    /\ pc' = "idle"
    /\ session' = session - 1
    /\ request' = NoRequest
    /\ response' = NoResponse
    /\ queries' = 0
    /\ UNCHANGED <<store, previous>>

GetAvailableYears ==
    /\ pc = "handler"
    /\ Reply([op |-> "get_available_years"], get_available_years)

ListRegions ==
    /\ pc = "handler"
    /\ Reply([op |-> "list_regions"], list_regions)

GetParkDetails ==
    /\ pc = "handler"
    /\ \E park_code \in CodeInputs :
        Reply([op |-> "get_park_details", park_code |-> park_code],
              get_park_details(park_code))

ParkMonthlyVisitsWithThreshold ==
    /\ pc = "handler"
    /\ \E park_code \in CodeInputs, year \in Years, threshold \in ThresholdInputs :
        Reply([op |-> "park_monthly_visits_with_threshold", park_code |-> park_code,
               year |-> year, threshold |-> threshold],
              park_monthly_visits_with_threshold(park_code, year, threshold))

AnnualVisitsByPark ==
    /\ pc = "handler"
    /\ \E year \in Years, region_id \in RegionInputs, <<park_code, query>> \in ParkFilterInputs, min_total \in MinTotalInputs, limit \in AnnualLimitInputs :
        \E r \in annual_visits_by_park(year, region_id, park_code, query, min_total, limit) :
            Reply([op |-> "annual_visits_by_park", year |-> year, region_id |-> region_id,
                   park_code |-> park_code, query |-> query, min_total |-> min_total,
                   limit |-> limit], r)

AverageMonthlyVisitsByPark ==
    /\ pc = "handler"
    /\ \E start_year \in Years, end_year \in Years, region_id \in RegionInputs,
       <<park_code, query>> \in ParkFilterInputs, limit \in LimitInputs :
        \E r \in average_monthly_visits_by_park(start_year, end_year, region_id,
                                                park_code, query, limit) :
            Reply([op |-> "average_monthly_visits_by_park", start_year |-> start_year,
                   end_year |-> end_year, region_id |-> region_id,
                   park_code |-> park_code, query |-> query, limit |-> limit], r)

PeakSeasonAboveThreshold ==
    /\ pc = "handler"
    /\ \E year \in Years, threshold \in ThresholdInputs, region_id \in RegionInputs :
        \E r \in peak_season_above_threshold(year, threshold, region_id) :
            Reply([op |-> "peak_season_above_threshold", year |-> year,
                   threshold |-> threshold, region_id |-> region_id], r)

ParksAboveSystemAverage ==
    /\ pc = "handler"
    /\ \E year \in Years, region_id \in RegionInputs, <<park_code, query>> \in ParkFilterInputs :
        \E r \in parks_above_system_average(year, region_id, park_code, query) :
            Reply([op |-> "parks_above_system_average", year |-> year,
                   region_id |-> region_id, park_code |-> park_code, query |-> query], r)

TopParksByYear ==
    /\ pc = "handler"
    /\ \E year \in Years, limit \in TopLimitInputs, region_id \in RegionInputs,
       query \in QueryInputs :
        \E r \in top_parks_by_year(year, limit, region_id, query) :
            Reply([op |-> "top_parks_by_year", year |-> year, limit |-> limit,
                   region_id |-> region_id, query |-> query], r)

ParksByMetric ==
    /\ pc = "handler"
    /\ \E year \in Years, metric \in MetricInputs, region_id \in RegionInputs,
       limit \in LimitInputs :
        \E r \in parks_by_metric(year, metric, region_id, limit) :
            Reply([op |-> "parks_by_metric", year |-> year, metric |-> metric,
                   region_id |-> region_id, limit |-> limit], r)

AnnualVisitsByRegion ==
    /\ pc = "handler"
    /\ \E year \in Years, region_id \in RegionInputs :
        \E r \in annual_visits_by_region(year, region_id) :
            Reply([op |-> "annual_visits_by_region", year |-> year,
                   region_id |-> region_id], r)

MonthToMonthChange ==
    /\ pc = "handler"
    /\ \E park_code \in CodeInputs, year \in Years :
        Reply([op |-> "month_to_month_change", park_code |-> park_code, year |-> year],
              month_to_month_change(park_code, year))

GrowthByRegionOverTime ==
    /\ pc = "handler"
    /\ \E region_id \in RegionPathInputs, start_year \in Years, end_year \in Years :
        \E r \in growth_by_region_over_time(region_id, start_year, end_year) :
            Reply([op |-> "growth_by_region_over_time", region_id |-> region_id,
                   start_year |-> start_year, end_year |-> end_year], r)

ParkVisitVariability ==
    /\ pc = "handler"
    /\ \E year \in Years, region_id \in RegionInputs, <<park_code, query>> \in ParkFilterInputs, limit \in TopLimitInputs :
        \E r \in park_visit_variability(year, region_id, park_code, query, limit) :
            Reply([op |-> "park_visit_variability", year |-> year, region_id |-> region_id,
                   park_code |-> park_code, query |-> query, limit |-> limit], r)

Next ==
    \/ GetSession
    \/ GetAvailableYears
    \/ ListRegions
    \/ GetParkDetails
    \/ ParkMonthlyVisitsWithThreshold
    \/ AnnualVisitsByPark
    \/ AverageMonthlyVisitsByPark
    \/ PeakSeasonAboveThreshold
    \/ ParksAboveSystemAverage
    \/ TopParksByYear
    \/ ParksByMetric
    \/ AnnualVisitsByRegion
    \/ MonthToMonthChange
    \/ GrowthByRegionOverTime
    \/ ParkVisitVariability
    \/ CloseSession

Spec == Init /\ [][Next]_vars

\* a handler is a synchronous function over a finite result set: once the
\* session is injected it runs to its return or raise, and the dependency's
\* `with` block is then left.  No request ever has to arrive.
Handlers ==
    \/ GetAvailableYears
    \/ ListRegions
    \/ GetParkDetails
    \/ ParkMonthlyVisitsWithThreshold
    \/ AnnualVisitsByPark
    \/ AverageMonthlyVisitsByPark
    \/ PeakSeasonAboveThreshold
    \/ ParksAboveSystemAverage
    \/ TopParksByYear
    \/ ParksByMetric
    \/ AnnualVisitsByRegion
    \/ MonthToMonthChange
    \/ GrowthByRegionOverTime
    \/ ParkVisitVariability

\* the service started on the example store of one park over two years
InitExamples ==
    /\ Init
    /\ park = ParkTable
    /\ monthly_visit \in {t \in ExampleTables : DOMAIN t = {ACAD} \X Years \X {6}}
    /\ scan = KeyOrder

FairSpec ==
    InitExamples /\ [][Next]_vars /\ WF_vars(Handlers) /\ WF_vars(CloseSession)

(***************************************************************************)
(* The same request sent twice to the unchanged store.                     *)
(***************************************************************************)
\* the replies the handler of req.op can give to the request req
Handle(req) ==
    CASE req.op = "get_available_years" -> {get_available_years}
      [] req.op = "list_regions" -> {list_regions}
      [] req.op = "get_park_details" -> {get_park_details(req.park_code)}
      [] req.op = "park_monthly_visits_with_threshold" ->
             {park_monthly_visits_with_threshold(req.park_code, req.year, req.threshold)}
      [] req.op = "annual_visits_by_park" ->
             annual_visits_by_park(req.year, req.region_id, req.park_code, req.query,
                                   req.min_total, req.limit)
      [] req.op = "average_monthly_visits_by_park" ->
             average_monthly_visits_by_park(req.start_year, req.end_year, req.region_id,
                                            req.park_code, req.query, req.limit)
      [] req.op = "peak_season_above_threshold" ->
             peak_season_above_threshold(req.year, req.threshold, req.region_id)
      [] req.op = "parks_above_system_average" ->
             parks_above_system_average(req.year, req.region_id, req.park_code, req.query)
      [] req.op = "top_parks_by_year" ->
             top_parks_by_year(req.year, req.limit, req.region_id, req.query)
      [] req.op = "parks_by_metric" ->
             parks_by_metric(req.year, req.metric, req.region_id, req.limit)
      [] req.op = "annual_visits_by_region" ->
             annual_visits_by_region(req.year, req.region_id)
      [] req.op = "month_to_month_change" ->
             {month_to_month_change(req.park_code, req.year)}
      [] req.op = "growth_by_region_over_time" ->
             growth_by_region_over_time(req.region_id, req.start_year, req.end_year)
      [] req.op = "park_visit_variability" ->
             park_visit_variability(req.year, req.region_id, req.park_code, req.query,
                                    req.limit)

\* the reply is sent, the session closes, and the exchange is kept
CloseSessionAndKeep ==
    /\ pc = "reply"
    /\ previous = NoRequest
    /\ previous' = [request |-> request, response |-> response]
    /\ pc' = "idle"
    /\ session' = session - 1
    /\ request' = NoRequest
    /\ response' = NoResponse
    /\ queries' = 0
    /\ UNCHANGED store

\* the client sends the kept request again
Repeat ==
    /\ pc = "handler"
    /\ previous # NoRequest
    /\ \E r \in Handle(previous.request) : Reply(previous.request, r)

NextRepeat ==
    \/ previous = NoRequest /\ Next
    \/ CloseSessionAndKeep
    \/ previous # NoRequest /\ GetSession
    \/ Repeat
    \/ previous # NoRequest /\ CloseSession

SpecRepeat == Init /\ [][NextRepeat]_vars

(***************************************************************************)
(* The ingestion scripts: fetch_data.py, load_csv.py, fix_park_regions.py. *)
(* Each opens its own sqlite3 connection and never enables foreign keys.   *)
(***************************************************************************)
\* str(raw).split(): the words of a text given as its words and blanks
RECURSIVE Split(_)
Split(raw) ==
    IF raw = <<>> THEN <<>>
    ELSE (IF Head(raw) = " " THEN <<>> ELSE <<Head(raw)>>) \o Split(Tail(raw))

\* " ".join(words)
RECURSIVE Join(_)
Join(words) ==
    IF words = <<>> THEN ""
    ELSE IF Len(words) = 1 THEN words[1]
    ELSE words[1] \o " " \o Join(Tail(words))

clean_region_name(raw) == Join(Split(raw))

\* df["Region_clean"].map(REGION_ID_MAP): NaN for a name that is no key
MapRegion(raw) ==
    LET n == clean_region_name(raw)
    IN  IF n \in DOMAIN REGION_ID_MAP THEN Some(REGION_ID_MAP[n]) ELSE None

\* what the parks API returns: park codes (lower-case) of some parks, and
\* for each what the boundary endpoint does when it is asked for the park
ApiParkCodes == {Lower(c) : c \in {ACAD, GRCA}}
FetchOutcomes == {"ok", "ConnectionError", "Timeout", "HTTPError", "JSONDecodeError"}
ApiBatches == UNION {[K -> FetchOutcomes] : K \in SUBSET ApiParkCodes}

\* an exception that leaves a function, as a value no Optional[str] equals
Raised(e) == <<"raise", e>>
IsRaised(b) == Len(b) = 2

\* variant: the exception of a failed fetch leaves the function
fetch_park_boundary_Propagates(outcome) ==
    IF outcome = "ok" THEN Some("GeoJSON") ELSE Raised(outcome)

\* try: requests.get, raise_for_status, resp.json, json.dumps
\* except Exception: return None
fetch_park_boundary(outcome) ==
    IF outcome = "ok" THEN Some("GeoJSON") ELSE None

\* the script's exit code: 0, or 1 when an exception reaches the top level
Exit(code) == [status |-> code, detail |-> "", body |-> <<>>]

\* the CSV files: per unit code the text of its Region column, and per
\* (UnitCode, Year, Month) the two visit counters
CsvUnitCodes == {<<"a", "c">>, GRCA, ZION}
CsvCounts(u) == IF u = GRCA THEN [RecreationVisits |-> 1, NonRecreationVisits |-> 0]
                ELSE [RecreationVisits |-> 2, NonRecreationVisits |-> 1]
CsvRows ==
    {[k \in K |-> CsvCounts(k[1])] : K \in SUBSET (CsvUnitCodes \X {FirstYear} \X {6})}
\* the Region text of a unit: padded with blanks, or a name that is no key
\* of REGION_ID_MAP
CsvRegionColumns ==
    {[u \in CsvUnitCodes |->
         CASE u = GRCA -> g
           [] u = ZION -> <<"Intermountain">>
           [] OTHER -> <<"Alaska">>] :
        g \in {<<" ", "Alaska", " ">>, <<"Alaska", " ", "Region">>}}
CsvFiles == {[Region |-> rg, rows |-> t] : rg \in CsvRegionColumns, t \in CsvRows}

\* variant: a park that is already in the table keeps its region_id
insert_parks_into_db_KeepRegions(batch) ==
    [park |-> [c \in {Upper(p) : p \in DOMAIN batch} |->
                  [park_name |-> ParkTable[c].park_name,
                   region_id |-> IF c \in DOMAIN park THEN park[c].region_id ELSE None,
                   boundary |-> fetch_park_boundary(batch[CHOOSE p \in DOMAIN batch :
                                                              Upper(p) = c])]],
     exit |-> 0]

\* fetch_all_parks + insert_parks_into_db: DELETE FROM park, then one row
\* per park of the batch with region_id NULL and the fetched boundary, then
\* commit; an exception before the commit leaves the table as it was
insert_parks_into_db(batch) ==
    LET fetched == [p \in DOMAIN batch |-> fetch_park_boundary(batch[p])]
    IN  IF \E p \in DOMAIN batch : IsRaised(fetched[p])
        THEN [park |-> park, exit |-> 1]
        ELSE [park |-> [c \in {Upper(p) : p \in DOMAIN batch} |->
                           [park_name |-> ParkTable[c].park_name,
                            region_id |-> None,
                            boundary |-> fetched[CHOOSE p \in DOMAIN batch :
                                                     Upper(p) = c]]],
              exit |-> 0]

\* UPDATE park SET region_id = ? WHERE park_code = ? for every unit code of
\* the CSV whose region name maps to an id
UpdateParkRegions(csv) ==
    [c \in DOMAIN park |->
        LET units == {k[1] : k \in {k \in DOMAIN csv.rows :
                                      /\ Upper(k[1]) = c
                                      /\ ~IsNone(MapRegion(csv.Region[k[1]]))}}
        IN  IF units = {} THEN park[c]
            ELSE [park[c] EXCEPT
                     !.region_id = MapRegion(csv.Region[CHOOSE u \in units : TRUE])]]

\* DELETE FROM monthly_visit, then INSERT OR REPLACE of every CSV row
MonthlyVisitsOf(csv) ==
    [k \in {<<Upper(r[1]), r[2], r[3]>> : r \in DOMAIN csv.rows} |->
        LET r == CHOOSE r \in DOMAIN csv.rows : <<Upper(r[1]), r[2], r[3]>> = k
        IN  MonthlyVisitRow(csv.rows[r].RecreationVisits,
                            csv.rows[r].NonRecreationVisits, 0)]

\* the database as create_db.py leaves it: the schema and no row
InitEmpty ==
    /\ region = <<>>
    /\ park = <<>>
    /\ monthly_visit = <<>>
    /\ scan = KeyOrder
    /\ pc = "idle"
    /\ session = 0
    /\ request = NoRequest
    /\ response = NoResponse
    /\ queries = 0
    /\ previous = NoRequest

\* a run of a script: request holds the script and its input, response its
\* exit code, previous the script that ran before
InsertParksIntoDb ==
    /\ \E batch \in ApiBatches :
        /\ park' = insert_parks_into_db(batch).park
        /\ request' = [op |-> "insert_parks_into_db", parks |-> batch]
        /\ response' = Exit(insert_parks_into_db(batch).exit)
    /\ previous' = [op |-> request.op]
    /\ UNCHANGED <<region, monthly_visit, scan, pc, session, queries>>

LoadCsv ==
    /\ \E csv \in CsvFiles :
        /\ region' = RegionTable
        /\ park' = UpdateParkRegions(csv)
        /\ monthly_visit' = MonthlyVisitsOf(csv)
        /\ request' = [op |-> "load_csv", csv |-> csv]
        /\ response' = Exit(0)
    /\ previous' = [op |-> request.op]
    /\ UNCHANGED <<scan, pc, session, queries>>

FixParkRegions ==
    /\ \E csv \in CsvFiles :
        /\ region' = [rid \in DOMAIN region \cup DOMAIN RegionTable |->
                          IF rid \in DOMAIN region THEN region[rid]
                          ELSE RegionTable[rid]]
        /\ park' = UpdateParkRegions(csv)
        /\ request' = [op |-> "fix_park_regions", csv |-> csv]
        /\ response' = Exit(0)
    /\ previous' = [op |-> request.op]
    /\ UNCHANGED <<monthly_visit, scan, pc, session, queries>>

NextIngest ==
    \/ InsertParksIntoDb
    \/ LoadCsv
    \/ FixParkRegions

SpecIngest == InitEmpty /\ [][NextIngest]_vars

(***************************************************************************)
(* The dashboard (frontend/app.py): the Q2 tab.                            *)
(***************************************************************************)
\* the sidebar: the regions of the multiselect in the order they were
\* picked, the selected parks, and the "Results Limit" slider (1..100)
GlobalRegionInputs == {<<>>, <<AKR>>, <<AKR, IMR>>, <<IMR, AKR>>}
SelectedParkInputs == {<<>>, <<GRCA>>}
SliderLimits == {1, MaxLimit}

\* requests.get(API_BASE/annual-visits/parks, params).json()
FetchAnnualVisits(year, region_id, limit) ==
    {r.body : r \in annual_visits_by_park(year, region_id, None, None, None, limit)}

\* for rid in global_regions: combined.extend(resp.json())
RECURSIVE Combined(_, _, _)
Combined(regions, year, limit) ==
    IF regions = <<>> THEN {<<>>}
    ELSE {a \o b : a \in FetchAnnualVisits(year, Some(Head(regions)), limit),
                   b \in Combined(Tail(regions), year, limit)}

\* df[df["park_code"].isin(selected_park_codes)]
RECURSIVE IsIn(_, _)
IsIn(rows, codes) ==
    IF rows = <<>> THEN <<>>
    ELSE (IF \E i \in 1..Len(codes) : codes[i] = Head(rows).park_code
          THEN <<Head(rows)>> ELSE <<>>) \o IsIn(Tail(rows), codes)

\* variant: the rows stay in the order they were fetched
sort_values_AsFetched(rows, f) == {rows}

\* df.sort_values(f, ascending=False): the default sort is not stable, rows
\* with equal f come in any order
sort_values(rows, f) ==
    {s \in Orderings({rows[i] : i \in 1..Len(rows)}) : IsDescBy(s, f)}

\* the rows the Q2 tab shows after "Fetch Q2 Data"
FetchQ2Data(year, limit, global_regions, selected_park_codes) ==
    LET datas == IF global_regions = <<>>
                 THEN FetchAnnualVisits(year, None, limit)
                 ELSE IF Len(global_regions) = 1
                 THEN FetchAnnualVisits(year, Some(global_regions[1]), limit)
                 ELSE Combined(global_regions, year, limit)
        Shown(data) ==
            IF data = <<>> THEN {<<>>}
            ELSE LET df == IF selected_park_codes # <<>>
                           THEN IsIn(data, selected_park_codes) ELSE data
                 IN  {IF Len(global_regions) > 1 THEN Slice(s, limit) ELSE s :
                         s \in sort_values(df, "annual_total_visits")}
    IN  UNION {Shown(data) : data \in datas}

\* the button is pressed: request holds the sidebar, response the rows shown
FetchQ2 ==
    /\ \E year \in Years, limit \in SliderLimits, global_regions \in GlobalRegionInputs,
          selected_park_codes \in SelectedParkInputs :
        \E df \in FetchQ2Data(year, limit, global_regions, selected_park_codes) :
            /\ request' = [op |-> "q2", year |-> year, limit |-> limit,
                           global_regions |-> global_regions,
                           selected_park_codes |-> selected_park_codes]
            /\ response' = [status |-> 200, detail |-> "", body |-> df]
    /\ UNCHANGED <<store, pc, session, queries, previous>>

\* the backend runs on a store with rows of one or two months per park
InitDashboard ==
    /\ Init
    /\ monthly_visit \in AnnualTables \cup VariabilityTables \cup FullTables

SpecDashboard == InitDashboard /\ [][FetchQ2]_vars

(***************************************************************************)
(* Properties.                                                             *)
(***************************************************************************)
\* the handler `op` has replied to the request in `request`
Replied(op) == pc = "reply" /\ request.op = op

BodyCodes == {response.body[i].park_code : i \in 1..Len(response.body)}

RECURSIVE SumAnnualTotals(_, _)
SumAnnualTotals(S, year) ==
    IF S = {} THEN 0
    ELSE LET c == CHOOSE x \in S : TRUE
         IN  AnnualTotal(c, year) + SumAnnualTotals(S \ {c}, year)

\* the parks with rows in `year`, of the region when one is asked for
ScopeParks(year, region_id) ==
    {c \in DOMAIN park :
        /\ \E m \in Months : <<c, year, m>> \in DOMAIN monthly_visit
        /\ (IsNone(region_id) \/ park[c].region_id = Some(Upper(Val(region_id))))}

\* the park passes the exact-code filter, or else the name filter
PassesParkFilter(c, park_code, query) ==
    IF ~IsNone(park_code) THEN c = Upper(Val(park_code))
    ELSE IsNone(query) \/ Contains(Lower(park[c].park_name), Lower(Val(query)))

\* C1: the month-to-month reply for a park and year with stored rows has a
\* null change_from_previous in the record of the first available month.
C1_FirstMonthChangeIsNull ==
    (Replied("month_to_month_change") /\ response.status = 200)
        => IsNone(response.body[1].change_from_previous)

\* C2: the above-average reply holds exactly the parks of the scope that
\* pass the park filter and whose annual total strictly exceeds the
\* unweighted mean of the scope's annual totals.
C2_ExactlyAboveTheMean ==
    (Replied("parks_above_system_average") /\ response.status = 200)
        => LET scope == ScopeParks(request.year, request.region_id)
           IN  BodyCodes =
                   {c \in scope :
                       /\ PassesParkFilter(c, request.park_code, request.query)
                       /\ AnnualTotal(c, request.year) * Cardinality(scope)
                              > SumAnnualTotals(scope, request.year)}

\* the request asks for at least one record
AsksForRecords == "limit" \in DOMAIN request => request.limit > 0

\* C3: every operation of the catalogue replies NotFound when its filtered
\* result set is empty; none replies with an empty list.
C3_EmptyIsAlwaysNotFound ==
    (pc = "reply" /\ AsksForRecords /\ response.status = 200)
        => response.body # <<>>

\* C3, what the handlers do: the monthly series, month-to-month, growth and
\* variability operations reply NotFound exactly when no row matches and
\* never reply with an empty list; the above-average operation replies
\* NotFound exactly when no park of the year and region has data; the six
\* other operations never reply NotFound.
C3_NotFoundRule ==
    pc = "reply" =>
        /\ request.op \in {"park_monthly_visits_with_threshold", "month_to_month_change"}
               => /\ response.status = 404
                      <=> ~\E m \in Months :
                             <<Upper(request.park_code), request.year, m>>
                                 \in DOMAIN monthly_visit
                  /\ response.status = 200 => response.body # <<>>
        /\ request.op = "park_visit_variability"
               => /\ response.status = 404
                      <=> ~\E c \in ScopeParks(request.year, request.region_id) :
                             PassesParkFilter(c, request.park_code, request.query)
                  /\ response.status = 200 => response.body # <<>>
        /\ (request.op = "growth_by_region_over_time" /\ response.status # 400)
               => /\ response.status = 404
                      <=> ~\E c \in ScopeParks(request.start_year, Some(request.region_id)) :
                             c \in ScopeParks(request.end_year, Some(request.region_id))
                  /\ response.status = 200 => response.body # <<>>
        /\ request.op = "parks_above_system_average"
               => (response.status = 404
                      <=> ScopeParks(request.year, request.region_id) = {})
        /\ request.op \in {"annual_visits_by_park", "average_monthly_visits_by_park",
                           "peak_season_above_threshold", "top_parks_by_year",
                           "parks_by_metric", "annual_visits_by_region"}
               => response.status # 404

\* an operation replies 200 with an empty list to a request that matches
\* no row, and another replies 404
C3_Witness ==
    /\ Replied("annual_visits_by_park")
    /\ request.limit > 0
    /\ response.status = 200
    /\ response.body = <<>>
    /\ ScopeParks(request.year, request.region_id) = {}

\* the park codes of `scope`, ordered by descending annual total, in every
\* order that ties allow
RankedOrders(scope, year) ==
    {o \in Orderings(scope) :
        \A i \in 1..(Len(o) - 1) : AnnualTotal(o[i], year) >= AnnualTotal(o[i + 1], year)}

Min(a, b) == IF a <= b THEN a ELSE b

\* C4: every record of a top-N reply carries the 1-based position of its
\* park in the full list of the scope ordered by descending annual total,
\* whatever the name filter and the limit; the limit cuts the filtered list.
C4_RankIsPositionInFullScope ==
    Replied("top_parks_by_year") =>
        LET scope == ScopeParks(request.year, request.region_id)
            matching == {c \in scope : PassesParkFilter(c, None, request.query)}
        IN  /\ \E full \in RankedOrders(scope, request.year) :
                   \A i \in 1..Len(response.body) :
                       /\ response.body[i].rank \in 1..Len(full)
                       /\ full[response.body[i].rank] = response.body[i].park_code
            /\ BodyCodes \subseteq matching
            /\ Len(response.body) =
                   IF request.limit >= 0
                   THEN Min(request.limit, Cardinality(matching))
                   ELSE Max(Cardinality(matching) + request.limit, 0)

\* the park ranked third survives the name filter and is listed second
C4_Witness ==
    /\ Replied("top_parks_by_year")
    /\ ~IsNone(request.query)
    /\ Len(response.body) = 2
    /\ response.body[1].rank = 1
    /\ response.body[2].rank = 3

\* C5: a request with start_year > end_year is rejected with 400 by the
\* average-monthly and the growth operations before any statement runs.
C5_InvertedRangeRejectedBeforeQuery ==
    (/\ pc = "reply"
     /\ request.op \in {"average_monthly_visits_by_park", "growth_by_region_over_time"}
     /\ request.start_year > request.end_year)
        => response.status = 400 /\ queries = 0

C5_Witness ==
    /\ Replied("average_monthly_visits_by_park")
    /\ request.start_year > request.end_year
    /\ response.status = 400

\* C6: in a growth reply growth_percent is 0 when start_total is 0 and
\* otherwise the integer nearest to (end_total - start_total) * 100 /
\* start_total (a tie going to the even one); the totals are the annual
\* totals of the two years and a zero start_total is no error.
C6_GrowthPercent ==
    (Replied("growth_by_region_over_time")
         /\ request.start_year < request.end_year)
        => /\ response.status \in {200, 404}
           /\ \A i \in 1..Len(response.body) :
                  LET rec == response.body[i]
                      st == rec.start_total
                      diff == (rec.end_total - rec.start_total) * 100
                      g == rec.growth_percent
                  IN  /\ st = AnnualTotal(rec.park_code, request.start_year)
                      /\ rec.end_total = AnnualTotal(rec.park_code, request.end_year)
                      /\ st = 0 => g = 0
                      /\ st > 0 => /\ 2 * g * st - st <= 2 * diff
                                   /\ 2 * diff <= 2 * g * st + st
                                   /\ (2 * diff = 2 * g * st + st
                                          \/ 2 * diff = 2 * g * st - st) => g % 2 = 0

\* the documented example: start_total 0, end_total 500
C6_Witness ==
    /\ Replied("growth_by_region_over_time")
    /\ \E i \in 1..Len(response.body) :
           /\ response.body[i].start_total = 0
           /\ response.body[i].end_total = 500
           /\ response.body[i].growth_percent = 0

\* the rows of a park in a year, as the set of their total_visits by month
StoredMonths(c, year) == {m \in Months : <<c, year, m>> \in DOMAIN monthly_visit}

RECURSIVE SumByMonth(_, _, _, _)
SumByMonth(c, year, months, power) ==
    IF months = {} THEN 0
    ELSE LET m == CHOOSE x \in months : TRUE
             v == monthly_visit[<<c, year, m>>].total_visits
         IN  (IF power = 2 THEN v * v ELSE v) + SumByMonth(c, year, months \ {m}, power)

\* r is the integer nearest to num / den (den > 0), an even one on a tie
IsRounded(r, num, den) ==
    /\ 2 * r * den - den <= 2 * num
    /\ 2 * num <= 2 * r * den + den
    /\ (2 * num = 2 * r * den + den \/ 2 * num = 2 * r * den - den) => r % 2 = 0

\* r >= 0 is the integer nearest to sqrt(num) / den, an even one on a tie
IsRoundedSqrt(r, num, den) ==
    /\ r >= 0
    /\ r > 0 => (2 * r - 1) * (2 * r - 1) * den * den <= 4 * num
    /\ 4 * num <= (2 * r + 1) * (2 * r + 1) * den * den
    /\ (4 * num = (2 * r + 1) * (2 * r + 1) * den * den
           \/ (r > 0 /\ 4 * num = (2 * r - 1) * (2 * r - 1) * den * den)) => r % 2 = 0

\* C7: in a variability reply months_with_data is the number n of monthly
\* rows of the park in the year, avg_monthly_visits is round(sum_v / n) and
\* std_dev_monthly_visits is the rounded population standard deviation
\* sqrt(sum_v2 / n - (sum_v / n)^2); totals 100, 200, 300 give 3, 200, 82.
C7_PopulationStdDev ==
    (Replied("park_visit_variability") /\ response.status = 200)
        => \A i \in 1..Len(response.body) :
               LET rec == response.body[i]
                   months == StoredMonths(rec.park_code, request.year)
                   n == Cardinality(months)
                   sum_v == SumByMonth(rec.park_code, request.year, months, 1)
                   sum_v2 == SumByMonth(rec.park_code, request.year, months, 2)
               IN  /\ n >= 1
                   /\ rec.months_with_data = n
                   /\ IsRounded(rec.avg_monthly_visits, sum_v, n)
                   /\ IsRoundedSqrt(rec.std_dev_monthly_visits,
                                    n * sum_v2 - sum_v * sum_v, n)
                   /\ {monthly_visit[<<rec.park_code, request.year, m>>].total_visits :
                          m \in months} = {100, 200, 300}
                          => /\ rec.months_with_data = 3
                             /\ rec.avg_monthly_visits = 200
                             /\ rec.std_dev_monthly_visits = 82

\* the documented example: monthly totals 100, 200, 300
C7_Witness ==
    /\ Replied("park_visit_variability")
    /\ response.status = 200
    /\ \E i \in 1..Len(response.body) :
           /\ {monthly_visit[<<response.body[i].park_code, request.year, m>>].total_visits :
                  m \in StoredMonths(response.body[i].park_code, request.year)}
                  = {100, 200, 300}
           /\ response.body[i].std_dev_monthly_visits = 82

\* C8: for a park and year with stored rows the monthly series holds one
\* record per stored month and no other, in strictly ascending month order,
\* each with the stored total and above_threshold <=> total >= threshold.
C8_MonthlySeries ==
    Replied("park_monthly_visits_with_threshold") =>
        LET code == Upper(request.park_code)
            months == StoredMonths(code, request.year)
            body == response.body
        IN  months # {} =>
                /\ response.status = 200
                /\ {body[i].month : i \in 1..Len(body)} = months
                /\ \A i \in 1..(Len(body) - 1) : body[i].month < body[i + 1].month
                /\ \A i \in 1..Len(body) :
                       /\ body[i].total_visits
                              = monthly_visit[<<code, request.year, body[i].month>>].total_visits
                       /\ body[i].above_threshold
                              <=> body[i].total_visits >= request.threshold

\* a series with a gap, one month at the threshold and one below it
C8_Witness ==
    /\ Replied("park_monthly_visits_with_threshold")
    /\ Len(response.body) = 2
    /\ response.body[1].month = 5
    /\ response.body[2].month = 7
    /\ response.body[1].total_visits = request.threshold
    /\ response.body[1].above_threshold
    /\ ~response.body[2].above_threshold

\* C9: for start_year < end_year the growth reply holds a park if and only
\* if the park is of the region and has a monthly row in start_year and a
\* monthly row in end_year.
C9_GrowthInnerJoin ==
    (Replied("growth_by_region_over_time")
         /\ request.start_year < request.end_year)
        => BodyCodes =
               {c \in DOMAIN park :
                   /\ park[c].region_id = Some(Upper(request.region_id))
                   /\ StoredMonths(c, request.start_year) # {}
                   /\ StoredMonths(c, request.end_year) # {}}

\* a park of the region with rows in start_year only is left out of a
\* reply that holds another park
C9_Witness ==
    /\ Replied("growth_by_region_over_time")
    /\ response.status = 200
    /\ \E c \in DOMAIN park :
           /\ park[c].region_id = Some(Upper(request.region_id))
           /\ StoredMonths(c, request.start_year) # {}
           /\ StoredMonths(c, request.end_year) = {}
           /\ c \notin BodyCodes

\* C10: the metric-sum operation replies 400, naming the requested value
\* and before any statement runs, exactly when the metric is none of the
\* seven whitelisted columns.
C10_MetricWhitelist ==
    Replied("parks_by_metric") =>
        IF request.metric \in {"concessioner_lodging", "concessioner_camping",
                               "tent_campers", "rv_campers", "backcountry",
                               "nonrecreation_overnight_stays",
                               "miscellaneous_overnight_stays"}
        THEN response.status # 400
        ELSE /\ response.status = 400
             /\ response.detail = "Unsupported metric: " \o request.metric
             /\ queries = 0

C10_Witness ==
    /\ Replied("parks_by_metric")
    /\ request.metric = "not_a_real_column"
    /\ response.status = 400
    /\ response.detail = "Unsupported metric: not_a_real_column"

\* the second reply to a request that was already answered on this store
Repeated == pc = "reply" /\ previous # NoRequest

C12_ReadOnly ==
    [][region' = region /\ park' = park /\ monthly_visit' = monthly_visit]_vars

\* a request for the details of a park that is not stored has failed on a
\* store that holds visit rows
C12_Witness ==
    /\ pc = "reply"
    /\ request.op = "get_park_details"
    /\ response.status = 404
    /\ monthly_visit # <<>>

\* the spellings of an identifier that differ only in letter case
Spellings(t) == {Upper(t), Lower(t)}

OptSpellings(o) == IF IsNone(o) THEN {None} ELSE {Some(t) : t \in Spellings(Val(o))}

\* the requests that differ from req only in the letter case of its park
\* code and region code
Respellings(req) ==
    CASE req.op \in {"get_park_details", "park_monthly_visits_with_threshold",
                     "month_to_month_change"} ->
             {[req EXCEPT !.park_code = t] : t \in Spellings(req.park_code)}
      [] req.op = "growth_by_region_over_time" ->
             {[req EXCEPT !.region_id = t] : t \in Spellings(req.region_id)}
      [] req.op \in {"annual_visits_by_park", "average_monthly_visits_by_park",
                     "parks_above_system_average", "park_visit_variability"} ->
             {[req EXCEPT !.region_id = r, !.park_code = c] :
                 r \in OptSpellings(req.region_id), c \in OptSpellings(req.park_code)}
      [] req.op \in {"peak_season_above_threshold", "top_parks_by_year",
                     "parks_by_metric", "annual_visits_by_region"} ->
             {[req EXCEPT !.region_id = r] : r \in OptSpellings(req.region_id)}
      [] OTHER -> {req}

\* C13: an operation that takes a park code or a region code gives the
\* same result for every spelling of the code that differs only in letter
\* case.
C13_CaseInsensitiveIdentifiers ==
    pc = "reply" =>
        \A req \in Respellings(request) :
            Handle(req) = {[status |-> response.status, detail |-> response.detail,
                            body |-> response.body, queries |-> queries]}

\* a lower-case park code and a lower-case region code select the park
C13_Witness ==
    /\ Replied("annual_visits_by_park")
    /\ request.region_id = Some(<<"a", "k", "r">>)
    /\ request.park_code = Some(<<"a", "c">>)
    /\ response.status = 200
    /\ Len(response.body) = 1
    /\ response.body[1].park_code = ACAD

\* C14: a request holds exactly one session while it is served, no session
\* is open between requests, and the session of a request is eventually
\* released whether the handler returns or raises.
C14_SessionReleased ==
    /\ [](pc \in {"handler", "reply"} => session = 1)
    /\ [](pc = "idle" => session = 0)
    /\ (session = 1 ~> session = 0)

\* a handler has raised NotFound and its session is still open
C14_Witness ==
    /\ pc = "reply"
    /\ response.status = 404
    /\ session = 1

\* the store holds the documented example: annual totals 200, 100 and 300
ThreeParksExample ==
    /\ park = ParkTable
    /\ AnnualTotal(ACAD, FirstYear) = 200
    /\ AnnualTotal(GRCA, FirstYear) = 100
    /\ AnnualTotal(ZION, FirstYear) = 300

\* C15: every record of the above-average reply has difference_from_average
\* = annual_total_visits - system_average_visits and percent_above_average
\* = round(difference / average * 100), or 0 when the average is 0; on the
\* totals 100, 200, 300 the reply is the 300 park alone, average 200,
\* percent 50.
C15_PercentAboveAverage ==
    (Replied("parks_above_system_average") /\ response.status = 200) =>
        /\ \A i \in 1..Len(response.body) :
               LET r == response.body[i]
               IN  /\ r.difference_from_average
                          = r.annual_total_visits - r.system_average_visits
                   /\ IF r.system_average_visits > 0
                      THEN IsRounded(r.percent_above_average,
                                     r.difference_from_average * 100,
                                     r.system_average_visits)
                      ELSE r.percent_above_average = 0
        /\ (/\ ThreeParksExample
            /\ request.year = FirstYear
            /\ IsNone(request.region_id)
            /\ IsNone(request.park_code)
            /\ IsNone(request.query))
               => /\ Len(response.body) = 1
                  /\ response.body[1].park_code = ZION
                  /\ response.body[1].annual_total_visits = 300
                  /\ response.body[1].system_average_visits = 200
                  /\ response.body[1].percent_above_average = 50

\* the reply on the documented example
C15_Witness ==
    /\ Replied("parks_above_system_average")
    /\ ThreeParksExample
    /\ IsNone(request.region_id)
    /\ Len(response.body) = 1
    /\ response.body[1].system_average_visits = 200
    /\ response.body[1].percent_above_average = 50

\* a park above an average that rounds to 0 is reported with percent 0
C15_ZeroAverage ==
    /\ Replied("parks_above_system_average")
    /\ Len(response.body) >= 1
    /\ response.body[1].system_average_visits = 0
    /\ response.body[1].annual_total_visits > 0
    /\ response.body[1].percent_above_average = 0

\* C16: after any runs of the ingestion scripts, the park_code of every
\* monthly_visit row is the park_code of a park row.
C16_EveryVisitHasAPark ==
    \A k \in DOMAIN monthly_visit : k[1] \in DOMAIN park

\* the scripts have loaded parks and visit rows, and a visit row has no park
C16_OrphanVisit ==
    /\ DOMAIN park # {}
    /\ \E k \in DOMAIN monthly_visit : k[1] \notin DOMAIN park

\* C17: in a month-to-month reply, a month that is not the first of the
\* year and whose preceding month has no stored row is not reported with
\* change_from_previous = total_visits - 0, as if the missing month had
\* zero visits.
C17_GapIsNotZero ==
    (Replied("month_to_month_change") /\ response.status = 200) =>
        \A i \in 2..Len(response.body) :
            (/\ <<Upper(request.park_code), request.year, response.body[i].month - 1>>
                    \notin DOMAIN monthly_visit
             /\ response.body[i - 1].total_visits > 0)
                => response.body[i].change_from_previous
                       # Some(response.body[i].total_visits)

\* months 5 and 7 are stored, month 6 is not, and month 7 is reported with
\* its own total as the change
C17_GapReportedAsZero ==
    /\ Replied("month_to_month_change")
    /\ Len(response.body) = 2
    /\ response.body[1].month = 5
    /\ response.body[1].total_visits > 0
    /\ response.body[2].month = 7
    /\ response.body[2].change_from_previous = Some(response.body[2].total_visits)

\* the parks whose per-park result belongs to the full list of a
\* variability request
VariabilityScope ==
    {c \in ScopeParks(request.year, request.region_id) :
        PassesParkFilter(c, request.park_code, request.query)}

\* the reply lists distinct parks of the scope in non-increasing order of
\* std_dev, and no park left out has a larger std_dev than a listed one
TopByStdDev ==
    /\ IsDescBy(response.body, "std_dev_monthly_visits")
    /\ BodyCodes \subseteq VariabilityScope
    /\ Cardinality(BodyCodes) = Len(response.body)
    /\ \A i \in 1..Len(response.body) :
           response.body[i] = VariabilityOut(response.body[i].park_code, request.year)
    /\ \A c \in VariabilityScope \ BodyCodes : \A i \in 1..Len(response.body) :
           VariabilityOut(c, request.year).std_dev_monthly_visits
               <= response.body[i].std_dev_monthly_visits

\* C18: the variability reply is the first `limit` entries of the full
\* list of per-park results sorted by descending std_dev: it is
\* non-increasing in std_dev and holds at most `limit` records.
C18_FirstLimitOfSorted ==
    (Replied("park_visit_variability") /\ response.status = 200
        /\ request.limit >= 0) =>
        /\ TopByStdDev
        /\ Len(response.body) <= request.limit
        /\ Len(response.body) = Min(request.limit, Cardinality(VariabilityScope))

\* C18 for the limits the handler applies: with limit > 0 the reply is the
\* first `limit` entries of the full sorted list; with limit <= 0 it is the
\* whole sorted list.
C18_SortedThenTruncated ==
    (Replied("park_visit_variability") /\ response.status = 200) =>
        /\ TopByStdDev
        /\ Len(response.body) =
               IF request.limit > 0
               THEN Min(request.limit, Cardinality(VariabilityScope))
               ELSE Cardinality(VariabilityScope)

\* limit 1 keeps the park with the largest std_dev, which the engine did
\* not deliver first
C18_Witness ==
    /\ Replied("park_visit_variability")
    /\ request.limit = 1
    /\ Len(response.body) = 1
    /\ response.body[1].std_dev_monthly_visits > 0
    /\ \E c \in VariabilityScope :
           /\ ScanBefore(c, response.body[1].park_code)
           /\ VariabilityOut(c, request.year).std_dev_monthly_visits = 0

\* C19: the records of a growth reply are in non-increasing order of
\* growth_percent.
C19_GrowthDescending ==
    (Replied("growth_by_region_over_time") /\ response.status = 200)
        => IsDescBy(response.body, "growth_percent")

\* two parks with different growth, listed against the order in which the
\* engine delivered them
C19_Witness ==
    /\ Replied("growth_by_region_over_time")
    /\ Len(response.body) = 2
    /\ response.body[1].growth_percent > response.body[2].growth_percent
    /\ ScanBefore(response.body[2].park_code, response.body[1].park_code)

\* the parks an annual-totals request matches: parks of the scope that
\* pass the park filter and whose annual total reaches min_total
AnnualMatching ==
    {c \in ScopeParks(request.year, request.region_id) :
        /\ PassesParkFilter(c, request.park_code, request.query)
        /\ (IsNone(request.min_total)
               \/ SumByMonth(c, request.year, StoredMonths(c, request.year), 1)
                      >= Val(request.min_total))}

\* C20: the annual-totals reply holds one record per matching park, with
\* the sum of total_visits over the park's monthly rows of the year; a park
\* is kept iff that sum is at least min_total; the records are in
\* non-increasing order of the sum and are the (at most) `limit` highest.
C20_AnnualTotalsByPark ==
    (Replied("annual_visits_by_park") /\ request.limit >= 0) =>
        /\ response.status = 200
        /\ BodyCodes \subseteq AnnualMatching
        /\ Cardinality(BodyCodes) = Len(response.body)
        /\ Len(response.body) = Min(request.limit, Cardinality(AnnualMatching))
        /\ \A i \in 1..Len(response.body) :
               /\ response.body[i].year = request.year
               /\ response.body[i].annual_total_visits
                      = SumByMonth(response.body[i].park_code, request.year,
                                   StoredMonths(response.body[i].park_code,
                                                request.year), 1)
        /\ IsDescBy(response.body, "annual_total_visits")
        /\ \A c \in AnnualMatching \ BodyCodes : \A i \in 1..Len(response.body) :
               SumByMonth(c, request.year, StoredMonths(c, request.year), 1)
                   <= response.body[i].annual_total_visits

\* limit 1 and min_total 1 on three parks with two months each: the park
\* with the highest sum is returned, one park is cut by the limit and one
\* by min_total
C20_Witness ==
    /\ Replied("annual_visits_by_park")
    /\ request.limit = 1
    /\ request.min_total = Some(1)
    /\ Len(response.body) = 1
    /\ response.body[1].annual_total_visits = 2 * MaxVisits
    /\ Cardinality(AnnualMatching) = 2
    /\ Cardinality(ScopeParks(request.year, request.region_id)) = 3

\* the parks of region rid, and the total of their monthly rows of the year
ParksOfRegion(rid) == {c \in DOMAIN park : park[c].region_id = Some(rid)}

RECURSIVE RegionTotal(_, _)
RegionTotal(P, year) ==
    IF P = {} THEN 0
    ELSE LET c == CHOOSE x \in P : TRUE
         IN  SumByMonth(c, year, StoredMonths(c, year), 1) + RegionTotal(P \ {c}, year)

\* the regions a region-totals request returns: regions with a park that
\* has a row in the year, the asked one only when a region_id is given
ReturnedRegions ==
    {rid \in DOMAIN region :
        /\ \E c \in ParksOfRegion(rid) : StoredMonths(c, request.year) # {}
        /\ (IsNone(request.region_id) \/ rid = Upper(Val(request.region_id)))}

\* C21: the region-totals reply lists the k returned regions once each in
\* non-increasing order of annual total (the sum of total_visits over the
\* monthly rows of the region's parks in the year) with rank i on the i-th
\* record, so the ranks are 1..k; with a region_id filter the one returned
\* region has rank 1.
C21_RegionRanks ==
    Replied("annual_visits_by_region") =>
        /\ response.status = 200
        /\ {response.body[i].region_id : i \in 1..Len(response.body)} = ReturnedRegions
        /\ Len(response.body) = Cardinality(ReturnedRegions)
        /\ \A i \in 1..Len(response.body) :
               /\ response.body[i].rank = i
               /\ response.body[i].annual_total_visits
                      = RegionTotal(ParksOfRegion(response.body[i].region_id),
                                    request.year)
        /\ IsDescBy(response.body, "annual_total_visits")
        /\ ~IsNone(request.region_id) =>
               \A i \in 1..Len(response.body) : response.body[i].rank = 1

\* a region_id filter on the region with the smaller total: it has rank 1
C21_Witness ==
    /\ Replied("annual_visits_by_region")
    /\ request.region_id = Some(IMR)
    /\ Len(response.body) = 1
    /\ response.body[1].rank = 1
    /\ response.body[1].annual_total_visits = 2 * MaxVisits
    /\ RegionTotal(ParksOfRegion(AKR), request.year) = 4 * MaxVisits

\* no filter: two regions with different totals get ranks 1 and 2
C21_TwoRegions ==
    /\ Replied("annual_visits_by_region")
    /\ IsNone(request.region_id)
    /\ Len(response.body) = 2
    /\ response.body[1].annual_total_visits > response.body[2].annual_total_visits
    /\ response.body[2].rank = 2

\* the rows a same-year, same-park comparison of month N must not read: the
\* row one month earlier of another year or another park, and for January
\* the December row of the year before
ForeignPrevious(code, year, month) ==
    {k \in DOMAIN monthly_visit :
        \/ k[3] = month - 1 /\ (k[1] # code \/ k[2] # year)
        \/ month = 1 /\ k[3] = 12 /\ k[2] = year - 1}

\* C22: the month-to-month reply of a park and year holds one record per
\* stored month, in ascending month order, with the stored total; a month N
\* whose month N-1 row of the same park and year exists has
\* change_from_previous = total_visits(N) - total_visits(N-1); and no
\* record's change is the difference to a row of another year or another
\* park (January is not compared with December of the year before).
C22_SameYearAdjacentMonth ==
    (Replied("month_to_month_change") /\ response.status = 200) =>
        LET code == Upper(request.park_code)
            year == request.year
            body == response.body
            Total(m) == monthly_visit[<<code, year, m>>].total_visits
        IN  /\ {body[i].month : i \in 1..Len(body)} = StoredMonths(code, year)
            /\ \A i \in 1..(Len(body) - 1) : body[i].month < body[i + 1].month
            /\ \A i \in 1..Len(body) :
                   LET m == body[i].month
                   IN  /\ body[i].total_visits = Total(m)
                       /\ <<code, year, m - 1>> \in DOMAIN monthly_visit
                              => body[i].change_from_previous
                                     = Some(Total(m) - Total(m - 1))
                       /\ <<code, year, m - 1>> \notin DOMAIN monthly_visit
                              => \A k \in ForeignPrevious(code, year, m) :
                                     monthly_visit[k].total_visits # 0
                                         => body[i].change_from_previous
                                                # Some(Total(m)
                                                         - monthly_visit[k].total_visits)

\* the reply for the year after a stored December: January is reported
\* without that December, June without the May rows of the earlier year and
\* of the other park, and July with its difference to June
C22_Witness ==
    /\ Replied("month_to_month_change")
    /\ response.status = 200
    /\ Len(response.body) = 3
    /\ response.body[1].month = 1
    /\ <<Upper(request.park_code), request.year - 1, 12>> \in DOMAIN monthly_visit
    /\ response.body[2].month = 6
    /\ ForeignPrevious(Upper(request.park_code), request.year, 6) # {}
    /\ response.body[3].month = 7
    /\ response.body[3].total_visits = 1
    /\ response.body[3].change_from_previous = Some(1 - MaxVisits)

\* C23: the growth operation replies 400 if and only if start_year >=
\* end_year; the average-monthly operation replies 400 if and only if
\* start_year > end_year, and with start_year = end_year it replies 200 with
\* the averages over the rows of that single year.
C23_YearRangeValidation ==
    /\ Replied("growth_by_region_over_time") =>
           (response.status = 400 <=> request.start_year >= request.end_year)
    /\ Replied("average_monthly_visits_by_park") =>
           /\ response.status = 400 <=> request.start_year > request.end_year
           /\ request.start_year = request.end_year =>
                  /\ response.status = 200
                  /\ \A i \in 1..Len(response.body) :
                         LET c == response.body[i].park_code
                             months == StoredMonths(c, request.start_year)
                         IN  /\ months # {}
                             /\ IsRounded(response.body[i].avg_monthly_visits,
                                          SumByMonth(c, request.start_year, months, 1),
                                          Cardinality(months))

\* the average-monthly reply for start_year = end_year on a park whose other
\* year has a row with a different total
C23_Witness ==
    /\ Replied("average_monthly_visits_by_park")
    /\ request.start_year = request.end_year
    /\ response.status = 200
    /\ \E i \in 1..Len(response.body), y \in Years \ {request.start_year} :
           LET k == <<response.body[i].park_code, y, 6>>
           IN  /\ k \in DOMAIN monthly_visit
               /\ monthly_visit[k].total_visits # response.body[i].avg_monthly_visits

\* the growth reply for two equal years
C23_EqualYearsRejected ==
    /\ Replied("growth_by_region_over_time")
    /\ request.start_year = request.end_year
    /\ response.status = 400

\* C24: after a run of insert_parks_into_db the script has exited normally
\* and the park table holds every park of the batch, a park whose boundary
\* fetch failed (connection error, timeout, HTTP error, bad JSON) with
\* boundary NULL and every other park with its boundary.
C24_BoundaryFailureIsNotFatal ==
    request.op = "insert_parks_into_db" =>
        /\ response.status = 0
        /\ DOMAIN park = {Upper(p) : p \in DOMAIN request.parks}
        /\ \A p \in DOMAIN request.parks :
               park[Upper(p)].boundary
                   = IF request.parks[p] = "ok" THEN Some("GeoJSON") ELSE None

\* two parks, the fetch of the first times out and the second succeeds:
\* both are in the table
C24_Witness ==
    /\ request.op = "insert_parks_into_db"
    /\ DOMAIN request.parks = ApiParkCodes
    /\ request.parks[Lower(ACAD)] = "Timeout"
    /\ request.parks[Lower(GRCA)] = "ok"
    /\ DOMAIN park = {ACAD, GRCA}
    /\ park[ACAD].boundary = None
    /\ park[GRCA].boundary = Some("GeoJSON")

\* the replies to the request in `request` without its park_code and query
UnfilteredReplies ==
    parks_above_system_average(request.year, request.region_id, None, None)

\* C25: for a year and region, the above-average reply under a park_code or
\* query filter fails exactly when the unfiltered call fails, reports in
\* every record the average of the whole scope (the one the unfiltered call
\* reports), and holds a park iff the park passes the filter and is in the
\* unfiltered reply.
C25_AverageOverWholeScope ==
    Replied("parks_above_system_average") =>
        \A u \in UnfilteredReplies :
            /\ response.status = u.status
            /\ response.status = 200 =>
                   LET scope == ScopeParks(request.year, request.region_id)
                       All == {u.body[j] : j \in 1..Len(u.body)}
                   IN  /\ BodyCodes =
                              {r.park_code : r \in
                                  {r \in All : PassesParkFilter(r.park_code,
                                                                request.park_code,
                                                                request.query)}}
                       /\ Cardinality(BodyCodes) = Len(response.body)
                       /\ \A i \in 1..Len(response.body) :
                              /\ response.body[i] \in All
                              /\ IsRounded(response.body[i].system_average_visits,
                                           SumAnnualTotals(scope, request.year),
                                           Cardinality(scope))

\* a park_code filter on one of two parks above the average of three
C25_Witness ==
    /\ Replied("parks_above_system_average")
    /\ request.park_code # None
    /\ Len(response.body) = 1
    /\ response.body[1].system_average_visits < response.body[1].annual_total_visits
    /\ \E u \in UnfilteredReplies : Len(u.body) = 2
    /\ Cardinality(ScopeParks(request.year, request.region_id)) = 3

\* a name query that the one park above the average does not match
C25_QueryEmptiesTheReply ==
    /\ Replied("parks_above_system_average")
    /\ request.park_code = None
    /\ request.query # None
    /\ response.status = 200
    /\ response.body = <<>>
    /\ \E u \in UnfilteredReplies : Len(u.body) = 1

\* C26: in a top-N reply for a limit >= 0 the ranks strictly increase along
\* the list, every rank is in 1..N for the N parks with data in the scope
\* (never the fallback 0), no park is listed twice, and without a name query
\* the ranks are exactly 1..min(limit, N).
C26_TopRanks ==
    (Replied("top_parks_by_year") /\ request.limit >= 0) =>
        LET N == Cardinality(ScopeParks(request.year, request.region_id))
            body == response.body
        IN  /\ \A i \in 1..(Len(body) - 1) : body[i].rank < body[i + 1].rank
            /\ \A i \in 1..Len(body) : body[i].rank \in 1..N
            /\ Cardinality(BodyCodes) = Len(body)
            /\ IsNone(request.query) =>
                   /\ Len(body) = Min(request.limit, N)
                   /\ \A i \in 1..Len(body) : body[i].rank = i

\* no name query, three parks in the scope and limit 2: ranks 1 and 2
C26_Witness ==
    /\ Replied("top_parks_by_year")
    /\ IsNone(request.query)
    /\ request.limit = 2
    /\ Cardinality(ScopeParks(request.year, request.region_id)) = 3
    /\ Len(response.body) = 2
    /\ response.body[1].rank = 1
    /\ response.body[2].rank = 2

\* a name query keeps the parks ranked second and third only
C26_RanksFromTwo ==
    /\ Replied("top_parks_by_year")
    /\ ~IsNone(request.query)
    /\ Len(response.body) = 2
    /\ response.body[1].rank = 2
    /\ response.body[2].rank = 3

\* the monthly totals of a park in a year
MonthlyTotals(c, year) ==
    {monthly_visit[<<c, year, m>>].total_visits : m \in StoredMonths(c, year)}

C27_SingleMonth ==
    /\ Replied("park_visit_variability")
    /\ response.status = 200
    /\ \E i \in 1..Len(response.body) :
           /\ response.body[i].months_with_data = 1
           /\ response.body[i].avg_monthly_visits = MaxVisits
           /\ response.body[i].std_dev_monthly_visits = 0

\* the operations with both an exact-code filter and a name search
CodeAndQueryOps ==
    {"annual_visits_by_park", "average_monthly_visits_by_park",
     "parks_above_system_average", "park_visit_variability"}

\* C28: in the annual-by-park, average-monthly, above-average and
\* variability operations a request with both park_code and query gets the
\* reply of the same request with park_code alone.
C28_CodeBeforeQuery ==
    (/\ pc = "reply"
     /\ request.op \in CodeAndQueryOps
     /\ ~IsNone(request.park_code)
     /\ ~IsNone(request.query))
        => Handle([request EXCEPT !.query = None])
               = {[status |-> response.status, detail |-> response.detail,
                   body |-> response.body, queries |-> queries]}

\* park_code and a query that the park's name does not contain: the park is
\* returned
C28_Witness ==
    /\ pc = "reply"
    /\ request.op \in CodeAndQueryOps
    /\ ~IsNone(request.park_code)
    /\ ~IsNone(request.query)
    /\ ~Contains(Lower(park[Upper(Val(request.park_code))].park_name),
                 Lower(Val(request.query)))
    /\ response.status = 200
    /\ BodyCodes = {Upper(Val(request.park_code))}

\* the region ids the CSV gives for park code c: the ids of the region
\* names, blanks trimmed, on the rows of the unit codes that spell c
CsvRegionIds(csv, c) ==
    {REGION_ID_MAP[n] :
        n \in {n \in DOMAIN REGION_ID_MAP :
                  \E k \in DOMAIN csv.rows :
                      /\ Upper(k[1]) = c
                      /\ Split(csv.Region[k[1]]) = <<n>>}}

\* C29: after a run of insert_parks_into_db every park row has region_id
\* NULL, whatever the table held before; after a run of load_csv or
\* fix_park_regions that follows it, a park of the table whose code is in
\* the CSV with a region name of REGION_ID_MAP has that region's id, and
\* every other park of the table still has region_id NULL.
C29_IngestionPasses ==
    /\ request.op = "insert_parks_into_db" =>
           \A c \in DOMAIN park : park[c].region_id = None
    /\ (request.op \in {"load_csv", "fix_park_regions"}
            /\ previous.op = "insert_parks_into_db") =>
           \A c \in DOMAIN park :
               IF CsvRegionIds(request.csv, c) # {}
               THEN park[c].region_id \in {Some(r) : r \in CsvRegionIds(request.csv, c)}
               ELSE park[c].region_id = None

\* load_csv after insert_parks_into_db: one park got the id of its region
\* (written with blanks around the name), the other, absent from the CSV
\* rows, is still without region
C29_Witness ==
    /\ request.op = "load_csv"
    /\ previous.op = "insert_parks_into_db"
    /\ DOMAIN park = {ACAD, GRCA}
    /\ park[GRCA].region_id = Some(AKR)
    /\ request.csv.Region[GRCA] = <<" ", "Alaska", " ">>
    /\ park[ACAD].region_id = None
    /\ CsvRegionIds(request.csv, ACAD) = {}

\* a rerun of insert_parks_into_db after a backfill
C29_Rerun ==
    /\ request.op = "insert_parks_into_db"
    /\ previous.op = "fix_park_regions"
    /\ DOMAIN park = {ACAD, GRCA}
    /\ DOMAIN region = DOMAIN RegionTable

\* fix_park_regions after insert_parks_into_db: the region name of the park
\* is no key of REGION_ID_MAP and the park stays without region
C29_UnknownRegionName ==
    /\ request.op = "fix_park_regions"
    /\ previous.op = "insert_parks_into_db"
    /\ GRCA \in DOMAIN park
    /\ <<GRCA, FirstYear, 6>> \in DOMAIN request.csv.rows
    /\ request.csv.Region[GRCA] = <<"Alaska", " ", "Region">>
    /\ park[GRCA].region_id = None

\* the parks with rows in the year whose region is one of the selected ones
UnionOfRegions ==
    {c \in DOMAIN park :
        /\ StoredMonths(c, request.year) # {}
        /\ \E i \in 1..Len(request.global_regions) :
               park[c].region_id = Some(request.global_regions[i])}

\* the annual totals of the first `limit` parks of the union, by descending
\* annual total, equal the annual totals of the rows shown
ShowsTopOfUnion ==
    \E o \in Orderings(UnionOfRegions) :
        /\ \A i \in 1..(Len(o) - 1) :
               SumByMonth(o[i], request.year, StoredMonths(o[i], request.year), 1)
                   >= SumByMonth(o[i + 1], request.year,
                                 StoredMonths(o[i + 1], request.year), 1)
        /\ Len(response.body) = Min(request.limit, Len(o))
        /\ \A i \in 1..Len(response.body) :
               response.body[i].annual_total_visits
                   = SumByMonth(o[i], request.year, StoredMonths(o[i], request.year), 1)

\* C30: with several regions selected, the rows of the dashboard's Q2 tab
\* have the sequence of annual totals of the top `limit` parks, by annual
\* total, of the union of the selected regions.
C30_MultiRegionMerge ==
    (request.op = "q2" /\ Len(request.global_regions) > 1) => ShowsTopOfUnion

\* C30, with no park selected in the sidebar: the rows of the Q2 tab for
\* several regions have the sequence of annual totals of the top `limit`
\* parks of the union of the selected regions.
C30_MultiRegionMergeWithoutSelection ==
    (/\ request.op = "q2"
     /\ Len(request.global_regions) > 1
     /\ request.selected_park_codes = <<>>) => ShowsTopOfUnion

\* two regions, limit 2 and three parks with visits: both rows shown are of
\* the first region, the park of the second region is cut by the merge
C30_Witness ==
    /\ request.op = "q2"
    /\ request.global_regions = <<IMR, AKR>>
    /\ request.selected_park_codes = <<>>
    /\ request.limit = 2
    /\ Len(response.body) = 2
    /\ response.body[1].region_id = Some(AKR)
    /\ response.body[2].region_id = Some(AKR)
    /\ response.body[2].annual_total_visits
           > SumByMonth(ZION, request.year, StoredMonths(ZION, request.year), 1)
    /\ StoredMonths(ZION, request.year) # {}

\* two regions and a selected park: only the selected park is shown, the
\* top of the union holds two parks
C30_SelectionShown ==
    /\ request.op = "q2"
    /\ Len(request.global_regions) > 1
    /\ request.selected_park_codes = <<GRCA>>
    /\ request.limit = 2
    /\ Len(response.body) = 1
    /\ Cardinality(UnionOfRegions) = 3

====
